---- MODULE Spec2Model ----
(***************************************************************************)
(* Model of the MIU desktop client (tauri-client):                         *)
(*   - HttpStreamReader (audio.rs): a seekable byte source over one HTTP   *)
(*     resource, fed by a background fetch task through a bounded channel. *)
(*   - the sync_play handling of ServerClient (server.rs) on top of        *)
(*     AppState (state.rs).                                                *)
(*   - the supervisor of the event stream (server.rs run_event_loop,       *)
(*     establish_sse, process_sse_block, handle_event).                    *)
(* The HTTP server is the environment: it honours Range requests (the body *)
(* of a request for "bytes=o-" is the resource from offset o), answers a   *)
(* request that starts at or after the end of the resource with an error   *)
(* status, and may fail or time out at any moment.                         *)
(***************************************************************************)
EXTENDS Integers, Sequences, FiniteSets, TLC

\* ---------------------------------------------------------------- bounds
ResourceLen == 7      \* bytes of the streamed resource
MaxChunk == 2         \* largest chunk the response body yields
MaxReadLen == 2       \* largest destination buffer handed to read()
StartTime == 1050     \* the clock (ms) when the first event can arrive
MaxTime == 1650       \* the clock is not advanced past this
MaxRestarts == 2      \* sync_play_now calls in progress at once
MaxEvents == 2        \* events the server sends
MaxCommands == 1      \* play_pause commands the user gives
MaxTimers == 1        \* scheduled starts sleeping at once
MaxLockRuns == 2      \* events and commands taken by the tasks
MaxReaders == 3       \* byte sources created by play_from
F64_MAX == 1000000    \* stands for f64::MAX: a larger magnitude is infinite
MaxAttempts == 7      \* event-stream connections that come to an end
MaxChunkTokens == 3   \* largest chunk of the event stream, in tokens
SseStartTime == 1500  \* the clock (ms) when the supervisor starts

\* ------------------------------------------------------ program constants
PREFETCH_CHANNEL_SIZE == 5
MIN_BUFFER_CHUNKS == 2
estimated_latency == 50
MAX_RECONNECT_DELAY == 30
INITIAL_RECONNECT_DELAY == 1

None == -1            \* Option::None of an Option<u64>

\* The resource: byte i (0-based) has the value i+1, so bytes are distinct.
Resource == [i \in 1..ResourceLen |-> i]
Slice(off, n) == SubSeq(Resource, off + 1, off + n)
Min(a, b) == IF a < b THEN a ELSE b

\* FetchMessage
ChunkMsg(d) == [type |-> "Chunk", data |-> d, err |-> "none"]
EofMsg == [type |-> "Eof", data |-> <<>>, err |-> "none"]
ErrorMsg(e) == [type |-> "Error", data |-> <<>>, err |-> e]
NoMsg == [type |-> "None", data |-> <<>>, err |-> "none"]

VARIABLES
  \* HttpStreamReader fields
  buffer, buffer_pos, position, eof, total_length, chunk_rx, fetch_task,
  chunk_buffer,
  \* the mpsc channel between the fetch task and the reader
  channel,
  \* the fetch task: where it is suspended, its locals, the response body
  taskPc, current_offset, pendingMsg, respPos,
  \* the reader thread: idle, or suspended in blocking_recv inside read()
  rdPc, rdLen,
  \* observation of the stream since it was (re)opened and of the last call
  openOffset, sent, taskErr, rdErr, last,
  \* the Arc<Mutex<AppState>> and the clock (ms)
  app_state, now,
  \* the SSE event loop: where it is in handling one event, and that event
  loopPc, loopEv,
  \* the scheduled starts asleep, the sync_play_now calls in progress, the
  \* audio sink, and a play_pause command between its state update and its
  \* audio stop
  timers, restarts, sink, uiPc,
  \* the events received and the commands given so far
  events, commands,
  \* observation of the last delay computed and the last restart finished
  lastDelay, lastRestart,
  \* AppState::backend_url, and run_event_loop: where it is suspended, its
  \* counter and the delay it last computed (s)
  backend_url, ssePc, reconnect_attempts, sleep_secs,
  \* the event-stream responses open, what the server sends on the open one
  \* and how much of it has arrived, and the text not yet cut into blocks
  conns, stream, sse_buffer,
  \* observation: the connection attempts that failed (no response, or a
  \* non-success status) since the supervisor started or a stream was opened
  failures,
  \* the task holding each mutex, the step each task is at and the program
  \* it runs, the tasks spawned and not yet running, and the events and
  \* commands taken so far
  owner, taskAt, running, spawned, started,
  \* the byte sources created by the AudioManager, the one inside its sink,
  \* and where play_from is
  readers, manager_sink, playPc

readerVars == <<buffer, buffer_pos, position, eof, total_length, chunk_rx,
                fetch_task, chunk_buffer>>
taskVars == <<taskPc, current_offset, pendingMsg, respPos>>
obsVars == <<openOffset, sent, taskErr, rdErr>>
vars == <<buffer, buffer_pos, position, eof, total_length, chunk_rx,
          fetch_task, chunk_buffer, channel, taskPc, current_offset,
          pendingMsg, respPos, rdPc, rdLen, openOffset, sent,
          taskErr, rdErr, last, app_state, now, loopPc, loopEv, timers,
          restarts, sink, uiPc, events, commands, lastDelay,
          lastRestart, backend_url, ssePc, reconnect_attempts, sleep_secs,
          conns, stream, sse_buffer, failures, owner, taskAt, running,
          spawned, started, readers, manager_sink, playPc>>
streamVars == <<buffer, buffer_pos, position, eof, total_length, chunk_rx,
                fetch_task, chunk_buffer, channel, taskPc, current_offset,
                pendingMsg, respPos, rdPc, rdLen, openOffset, sent,
                taskErr, rdErr, last>>
syncVars == <<app_state, now, loopPc, loopEv, timers, restarts, sink, uiPc,
              events, commands, lastDelay, lastRestart>>
sseVars == <<backend_url, ssePc, reconnect_attempts, sleep_secs, conns,
             stream, sse_buffer, failures>>
lockVars == <<owner, taskAt, running, spawned, started>>
sourceVars == <<readers, manager_sink, playPc>>

\* ------------------------------------------------------------ the reader
\* buffer_start without the in-buffer cursor taken off
buffer_start_at_cursor == position

buffer_start == IF position >= buffer_pos THEN position - buffer_pos ELSE 0

SenderAlive == taskPc \in {"chunk", "send", "reissue"}

NoCall == [op |-> "none", target |-> <<>>,
           res |-> "ok", err |-> "none", kind |-> "none", n |-> 0,
           data |-> <<>>, reqs |-> <<>>, probes |-> 0,
           got |-> <<>>]

\* total_length_from_response / response.content_length at the end of a
\* successful start_stream: hdr is the total the response reports, or None.
TotalAfterOpen(cur, hdr) ==
  IF hdr # None THEN (IF cur = None \/ cur = 0 THEN hdr ELSE cur)
  ELSE cur

\* HttpStreamReader::new(client, url, 0, runtime) has returned Ok; hdr is the
\* total length its response reported, or None
HttpStreamReaderNew(hdr) ==
  /\ buffer = <<>>
  /\ buffer_pos = 0
  /\ position = 0
  /\ eof = FALSE
  /\ total_length = TotalAfterOpen(None, hdr)
  /\ chunk_rx = TRUE
  /\ fetch_task = TRUE
  /\ chunk_buffer = <<>>
  /\ channel = <<>>
  /\ taskPc = "chunk"
  /\ current_offset = 0
  /\ pendingMsg = NoMsg
  /\ respPos = 0
  /\ rdPc = "idle"
  /\ rdLen = 0
  /\ openOffset = 0
  /\ sent = <<>>
  /\ taskErr = "none"
  /\ rdErr = FALSE
  /\ last = NoCall

\* --------------------------------------------------------- the fetch task
\* sender.send(msg).await: the message enters the channel at once when there
\* is room; otherwise the task suspends holding it (pendingMsg).  After a
\* Chunk the loop goes on, after Eof or Error it breaks.
\* a channel that admits one message more than its capacity
ChannelHasRoomOffByOne == Len(channel) <= PREFETCH_CHANNEL_SIZE

ChannelHasRoom == Len(channel) < PREFETCH_CHANNEL_SIZE

\* last holds what the reader's call returned only in the state that call
\* leaves; any other step moves past it
Returned == last' = NoCall

\* a loop that goes on after every message
AfterSendGoOn(msg) == "chunk"

AfterSend(msg) == IF msg.type = "Chunk" THEN "chunk" ELSE "done"

Send(msg) ==
  IF ChannelHasRoom
    THEN /\ channel' = Append(channel, msg)
         /\ sent' = sent \o msg.data
         /\ pendingMsg' = NoMsg
         /\ taskPc' = AfterSend(msg)
    ELSE /\ pendingMsg' = msg
         /\ taskPc' = "send"
         /\ UNCHANGED <<channel, sent>>

\* current_response.chunk() yields Ok(Some(chunk)): advance current_offset and
\* send Chunk.  (An empty chunk is skipped: a stuttering step.)
AdvanceOffset(off, n) == off + n

FetchChunk(n) ==
  /\ taskPc = "chunk"
  /\ UNCHANGED <<syncVars, sseVars, lockVars, sourceVars>>
  /\ respPos + n <= ResourceLen
  /\ respPos' = respPos + n
  /\ current_offset' = AdvanceOffset(current_offset, n)
  /\ Send(ChunkMsg(Slice(respPos, n)))
  /\ Returned
  /\ UNCHANGED <<readerVars, rdPc, rdLen, openOffset, taskErr, rdErr>>

\* chunk() yields Ok(None): the body is complete
FetchEnd ==
  /\ taskPc = "chunk"
  /\ UNCHANGED <<syncVars, sseVars, lockVars, sourceVars>>
  /\ respPos = ResourceLen
  /\ Send(EofMsg)
  /\ Returned
  /\ UNCHANGED <<readerVars, current_offset, respPos, rdPc, rdLen,
                 openOffset, taskErr, rdErr>>

\* chunk() yields Err(err) with err.is_timeout(): request_stream_async is
\* called with current_offset
FetchTimeout ==
  /\ taskPc = "chunk"
  /\ UNCHANGED <<syncVars, sseVars, lockVars, sourceVars>>
  /\ taskPc' = "reissue"
  /\ Returned
  /\ UNCHANGED <<readerVars, channel, current_offset, pendingMsg, respPos,
                 rdPc, rdLen, obsVars>>

\* chunk() yields any other Err: one Error message, then break
FetchError ==
  /\ taskPc = "chunk"
  /\ UNCHANGED <<syncVars, sseVars, lockVars, sourceVars>>
  /\ Send(ErrorMsg("chunk_error"))
  /\ Returned
  /\ UNCHANGED <<readerVars, current_offset, respPos, rdPc, rdLen,
                 openOffset, rdErr>>
  /\ taskErr' = "chunk_error"

\* the offset of the request the loop reissues after a timeout
ReissueOffset == current_offset

\* request_stream_async returns Ok(new_response)
ReissueOk ==
  /\ taskPc = "reissue"
  /\ UNCHANGED <<syncVars, sseVars, lockVars, sourceVars>>
  /\ ReissueOffset < ResourceLen
  /\ respPos' = ReissueOffset
  /\ taskPc' = "chunk"
  /\ Returned
  /\ UNCHANGED <<readerVars, channel, current_offset, pendingMsg,
                 rdPc, rdLen, openOffset, sent, taskErr, rdErr>>

\* request_stream_async returns Err (send failed, or a non-2xx status)
ReissueFail ==
  /\ taskPc = "reissue"
  /\ UNCHANGED <<syncVars, sseVars, lockVars, sourceVars>>
  /\ Send(ErrorMsg("stream_error"))
  /\ Returned
  /\ UNCHANGED <<readerVars, current_offset, respPos, rdPc, rdLen,
                 openOffset, rdErr>>
  /\ taskErr' = "stream_error"

\* the suspended send completes once the reader has made room
TaskSend ==
  /\ taskPc = "send"
  /\ UNCHANGED <<syncVars, sseVars, lockVars, sourceVars>>
  /\ ChannelHasRoom
  /\ channel' = Append(channel, pendingMsg)
  /\ sent' = sent \o pendingMsg.data
  /\ pendingMsg' = NoMsg
  /\ taskPc' = AfterSend(pendingMsg)
  /\ Returned
  /\ UNCHANGED <<readerVars, current_offset, respPos, rdPc, rdLen,
                 openOffset, taskErr, rdErr>>

\* ----------------------------------------------------- HttpStreamReader
\* a copy that starts at the head of the buffer instead of at the cursor
CopyOutFromHead(buf, bpos, len) ==
  IF bpos >= Len(buf) THEN <<>>
  ELSE SubSeq(buf, 1, Min(len, Len(buf) - bpos))

\* Read::read, the copy: the bytes handed out of the held buffer
CopyOut(buf, bpos, len) ==
  IF bpos >= Len(buf) THEN <<>>
  ELSE SubSeq(buf, bpos + 1, bpos + Min(len, Len(buf) - bpos))

\* What a read leaves behind once load_next_chunk has returned: errv is the
\* error load_next_chunk returned ("none" for Ok), got the terminal messages
\* it took off the channel.
Deliver(buf, bpos, cb, ch, eofv, len, errv, got) ==
  LET out == IF errv # "none" THEN <<>> ELSE CopyOut(buf, bpos, len)
  IN /\ buffer' = buf
     /\ buffer_pos' = bpos + Len(out)
     /\ position' = position + Len(out)
     /\ chunk_buffer' = cb
     /\ channel' = ch
     /\ eof' = eofv
     /\ rdPc' = "idle"
     /\ rdLen' = 0
     /\ rdErr' = (rdErr \/ got = <<"Error">>)
     /\ last' = [NoCall EXCEPT !.op = "read",
                   !.res = IF errv = "none" THEN "ok" ELSE "err",
                   !.err = errv, !.n = Len(out), !.data = out, !.got = got]
     /\ UNCHANGED <<total_length, chunk_rx, fetch_task, taskVars, openOffset,
                    sent, taskErr>>

\* load_next_chunk, "Get next chunk from buffer" (after the receive loop)
AfterLoop(cb, ch, eofv, len, got) ==
  IF cb # <<>> THEN Deliver(Head(cb), 0, Tail(cb), ch, eofv, len, "none", got)
  ELSE IF eofv THEN Deliver(<<>>, 0, cb, ch, eofv, len, "none", got)
  ELSE Deliver(buffer, buffer_pos, cb, ch, eofv, len, "UnexpectedEof", got)

\* load_next_chunk, the try_recv part of the receive loop: take messages off
\* the channel while fewer than MIN_BUFFER_CHUNKS chunks are queued.
\* st: "full" (loop condition false), "eof", "err", or "empty" (try_recv
\* found nothing).
RECURSIVE TryRecv(_, _)
TryRecv(cb, ch) ==
  IF Len(cb) >= MIN_BUFFER_CHUNKS
    THEN [cb |-> cb, ch |-> ch, st |-> "full", err |-> "none"]
  ELSE IF ch = <<>>
    THEN [cb |-> cb, ch |-> ch, st |-> "empty", err |-> "none"]
  ELSE LET m == Head(ch) IN
    CASE m.type = "Chunk" ->
           TryRecv(IF m.data # <<>> THEN Append(cb, m.data) ELSE cb, Tail(ch))
      [] m.type = "Eof" ->
           [cb |-> cb, ch |-> Tail(ch), st |-> "eof", err |-> "none"]
      [] OTHER ->
           [cb |-> cb, ch |-> Tail(ch), st |-> "err", err |-> m.err]

\* The error a read returns after load_next_chunk took an Error message
ErrorOf(e) == e

\* Read::read(buf) with buf.len() = len, up to its return or to the point
\* where load_next_chunk suspends in blocking_recv
ReadCall(len) ==
  /\ rdPc = "idle"
  /\ UNCHANGED <<syncVars, sseVars, lockVars, sourceVars>>
  /\ IF buffer_pos < Len(buffer)
       THEN Deliver(buffer, buffer_pos, chunk_buffer, channel, eof, len,
                    "none", <<>>)
     ELSE IF eof
       THEN Deliver(buffer, buffer_pos, chunk_buffer, channel, eof, len,
                    "none", <<>>)
     ELSE IF chunk_buffer # <<>>
       THEN Deliver(Head(chunk_buffer), 0, Tail(chunk_buffer), channel, eof,
                    len, "none", <<>>)
     ELSE IF ~chunk_rx
       THEN Deliver(buffer, buffer_pos, chunk_buffer, channel, eof, len,
                    "UnexpectedEof", <<>>)
     ELSE LET r == TryRecv(chunk_buffer, channel) IN
       CASE r.st = "empty" /\ SenderAlive ->
              /\ rdPc' = "recv"
              /\ rdLen' = len
              /\ chunk_buffer' = r.cb
              /\ channel' = r.ch
              /\ Returned
              /\ UNCHANGED <<buffer, buffer_pos, position, eof, total_length,
                             chunk_rx, fetch_task, taskVars, obsVars>>
         [] r.st = "empty" /\ ~SenderAlive ->
              AfterLoop(r.cb, r.ch, TRUE, len, <<"Disconnected">>)
         [] r.st = "eof" -> AfterLoop(r.cb, r.ch, TRUE, len, <<"Eof">>)
         [] r.st = "err" ->
              Deliver(buffer, buffer_pos, r.cb, r.ch, TRUE, len,
                      ErrorOf(r.err), <<"Error">>)
         [] OTHER -> AfterLoop(r.cb, r.ch, eof, len, <<>>)

\* blocking_recv returns: a message, or None once the sender is gone
ReadResume ==
  /\ rdPc = "recv"
  /\ UNCHANGED <<syncVars, sseVars, lockVars, sourceVars>>
  /\ channel # <<>> \/ ~SenderAlive
  /\ IF channel = <<>>
       THEN AfterLoop(chunk_buffer, channel, TRUE, rdLen, <<"Disconnected">>)
     ELSE LET m == Head(channel) IN
       CASE m.type = "Chunk" ->
              AfterLoop(Append(chunk_buffer, m.data), Tail(channel), eof,
                        rdLen, <<>>)
         [] m.type = "Eof" ->
              AfterLoop(chunk_buffer, Tail(channel), TRUE, rdLen, <<"Eof">>)
         [] OTHER ->
              Deliver(buffer, buffer_pos, chunk_buffer, Tail(channel), TRUE,
                      rdLen, ErrorOf(m.err), <<"Error">>)


\* ------------------------------------------------------ Seek and reopen
\* SeekFrom values tried: the start, the middle, the end and one past the
\* end as absolute offsets; one byte back, one byte forward and to just
\* before the start as relative moves; and the moves around the end
SeekFrom ==
  [whence : {"Start"}, off : {0, ResourceLen \div 2, ResourceLen,
                              ResourceLen + 1}]
    \cup [whence : {"Current"}, off : {-(position + 1), -1, 1}]
    \cup [whence : {"End"}, off : {-1, 0, 1}]
ProbeOutcomes == {"head", "get", "nolen", "fail"}
OpenOutcomes == {"ok_total", "ok_nolen", "fail"}

\* ensure_total_length: with the length unknown, a HEAD request and, unless
\* it reported a length, a GET of bytes=0-0.  probe: "head" (HEAD reported
\* the length), "get" (the GET did), "nolen" (neither did), "fail" (the GET
\* failed: the call returns Err).
ProbeRequests(tl, probe) ==
  IF tl # None THEN 0 ELSE IF probe = "head" THEN 1 ELSE 2
ProbedTotal(tl, probe) ==
  IF tl = None /\ probe \in {"head", "get"} THEN ResourceLen ELSE tl

\* a reopen that keeps the prefetch queue
DiscardPrefetchedNot(cb) == cb

\* abort_fetcher and chunk_buffer.clear() in start_stream: what is left of
\* the chunks prefetched before the reopen
DiscardPrefetched(cb) == <<>>

\* Seek::seek, the resolved target (an i128)
SeekTarget(whence, off, tl) ==
  CASE whence = "Start" -> off
    [] whence = "Current" -> position + off
    [] OTHER -> tl + off

\* the end-of-stream comparison off by one
SeekKindOffByOne(target, tl) ==
  IF target < 0 THEN "invalid"
  ELSE IF tl # None /\ target > tl + 1 THEN "invalid"
  ELSE IF tl # None /\ target = tl THEN "eof"
  ELSE IF buffer # <<>> /\ target >= buffer_start
          /\ target < buffer_start + Len(buffer) THEN "local"
  ELSE "cold"

\* The three seek cases and the two refusals, decided in the code's order
SeekKind(target, tl) ==
  IF target < 0 THEN "invalid"
  ELSE IF tl # None /\ target > tl THEN "invalid"
  ELSE IF tl # None /\ target = tl THEN "eof"
  ELSE IF buffer # <<>> /\ target >= buffer_start
          /\ target < buffer_start + Len(buffer) THEN "local"
  ELSE "cold"

\* a request taken to have succeeded whatever came back
OpenSucceedsAlways(offset, resp) == TRUE

\* The server's answer to GET bytes=offset-: resp ("fail": the request
\* failed or the status is neither 206 nor another 2xx), but never a
\* success at or past the end of the resource
OpenSucceeds(offset, resp) == resp # "fail" /\ offset < ResourceLen

SeekDone(target, res, errv, kind, reqs, probes) ==
  last' = [NoCall EXCEPT !.op = "seek",
             !.target = target, !.res = res, !.err = errv,
             !.kind = kind, !.reqs = reqs, !.probes = probes]

\* start_stream(offset) once the request has been answered with success:
\* the reader is reset and a new fetch task is spawned on a new channel
Reopen(offset, tl, hdr) ==
  /\ total_length' = TotalAfterOpen(tl, hdr)
  /\ position' = offset
  /\ buffer' = <<>>
  /\ buffer_pos' = 0
  /\ eof' = FALSE
  /\ chunk_buffer' = DiscardPrefetched(chunk_buffer)
  /\ channel' = <<>>
  /\ chunk_rx' = TRUE
  /\ fetch_task' = TRUE
  /\ taskPc' = "chunk"
  /\ current_offset' = offset
  /\ pendingMsg' = NoMsg
  /\ respPos' = offset
  /\ openOffset' = offset
  /\ sent' = <<>>
  /\ taskErr' = "none"
  /\ rdErr' = FALSE

\* Seek::seek(pos) as a whole
Seek(whence, off, probe, resp) ==
  /\ rdPc = "idle"
  /\ UNCHANGED <<syncVars, sseVars, lockVars, sourceVars>>
  /\ UNCHANGED <<rdPc, rdLen>>
  /\ (whence = "End" /\ total_length = None) \/ probe = "head"
  /\ LET needLen == whence = "End"
         probes == IF needLen THEN ProbeRequests(total_length, probe) ELSE 0
         tl == IF needLen THEN ProbedTotal(total_length, probe)
               ELSE total_length
     IN
     IF needLen /\ total_length = None /\ probe = "fail" THEN
       \* ensure_total_length()? : the GET failed
       /\ SeekDone(<<>>, "err", "Other", "none", <<>>, probes)
       /\ UNCHANGED <<readerVars, channel, taskVars, obsVars>>
     ELSE IF needLen /\ tl = None THEN
       /\ SeekDone(<<>>, "err", "Unsupported", "none", <<>>, probes)
       /\ UNCHANGED <<readerVars, channel, taskVars, obsVars>>
     ELSE
       LET target == SeekTarget(whence, off, tl)
           kind == SeekKind(target, tl)
       IN
       CASE kind = "invalid" ->
              /\ resp = "fail"
              /\ total_length' = tl
              /\ SeekDone(<<target>>, "err", "InvalidInput", kind, <<>>,
                          probes)
              /\ UNCHANGED <<buffer, buffer_pos, position, eof, chunk_rx,
                             fetch_task, chunk_buffer, channel, taskVars,
                             obsVars>>
         [] kind = "eof" ->
              /\ resp = "fail"
              /\ total_length' = tl
              /\ position' = target
              /\ eof' = TRUE
              /\ buffer' = <<>>
              /\ buffer_pos' = 0
              /\ SeekDone(<<target>>, "ok", "none", kind, <<>>, probes)
              /\ UNCHANGED <<chunk_rx, fetch_task, chunk_buffer, channel,
                             taskVars, obsVars>>
         [] kind = "local" ->
              /\ resp = "fail"
              /\ total_length' = tl
              /\ buffer_pos' = target - buffer_start
              /\ position' = target
              /\ SeekDone(<<target>>, "ok", "none", kind, <<>>, probes)
              /\ UNCHANGED <<buffer, eof, chunk_rx, fetch_task, chunk_buffer,
                             channel, taskVars, obsVars>>
         [] OTHER ->
              \* reopen_stream(target): one GET bytes=target-.  (With the
              \* total known, a response that reports it and one that does
              \* not leave the same state: one of them is enough.)
              IF \/ resp # "fail" /\ ~OpenSucceeds(target, resp)
                 \/ resp = "ok_nolen" /\ tl # None
              THEN FALSE
              ELSE IF OpenSucceeds(target, resp) THEN
                /\ Reopen(target, tl,
                          IF resp = "ok_total" THEN ResourceLen ELSE None)
                /\ SeekDone(<<target>>, "ok", "none", kind, <<target>>,
                            probes)
              ELSE
                /\ total_length' = tl
                /\ SeekDone(<<target>>, "err", "Other", kind, <<target>>,
                            probes)
                /\ UNCHANGED <<buffer, buffer_pos, position, eof, chunk_rx,
                               fetch_task, chunk_buffer, channel, taskVars,
                               obsVars>>

\* =========================================================== the client
\* Positions and durations are in milliseconds (the code's f64 seconds times
\* 1000), instants are the clock's milliseconds.

\* ------------------------------------------------------------- f64 values
\* The f64 values of the delay computation: a finite value, or +inf, -inf,
\* NaN.  A finite result whose magnitude exceeds F64_MAX is infinite.
F(n) == [fin |-> TRUE, v |-> n]
PosInf == [fin |-> FALSE, v |-> 1]
NegInf == [fin |-> FALSE, v |-> -1]
NaN == [fin |-> FALSE, v |-> 0]
Rounded(n) ==
  IF n > F64_MAX THEN PosInf ELSE IF n < -F64_MAX THEN NegInf ELSE F(n)
Neg(a) == [a EXCEPT !.v = -a.v]
Sub(a, b) ==
  IF a.fin /\ b.fin THEN Rounded(a.v - b.v)
  ELSE IF a.fin THEN Neg(b)
  ELSE IF b.fin THEN a
  ELSE IF a.v = 0 \/ b.v = 0 \/ a.v = b.v THEN NaN
  ELSE a
is_finite(a) == a.fin
Max(a, b) == IF a > b THEN a ELSE b

\* --------------------------------------------------------------- AppState
NoTrack == [id |-> "none", duration |-> 0]
Track(id, duration) == [id |-> id, duration |-> duration]

\* AppState::new_with_volume
AppStateNew ==
  [current_track |-> NoTrack, last_track_id |-> "none",
   player_status |-> "Stopped",
   user_paused |-> FALSE, synced_position |-> 0, track_duration |-> 0,
   last_sync_instant |-> None]

\* PlaybackStatus::from_str
from_str(value) ==
  CASE value = "playing" -> "Playing"
    [] value = "paused" -> "Paused"
    [] OTHER -> "Stopped"

update_player_status(s, status) == [s EXCEPT !.player_status = status]

set_user_paused(s, paused) ==
  [s EXCEPT !.user_paused = paused,
            !.player_status = IF paused THEN "Paused" ELSE @]

\* update_current_track: the value it returns, and the state it leaves
track_changed(s, track) ==
  CASE s.current_track # NoTrack /\ track # NoTrack ->
         s.current_track.id # track.id
    [] s.current_track = NoTrack /\ track # NoTrack ->
         track.id # s.last_track_id
    [] s.current_track # NoTrack /\ track = NoTrack -> TRUE
    [] OTHER -> FALSE
update_current_track(s, track) ==
  [s EXCEPT !.current_track = track,
            !.last_track_id = IF track # NoTrack THEN track.id ELSE @]

\* update_sync at instant t; duration is Some(d) or None
update_sync(s, pos, duration, t) ==
  [s EXCEPT !.synced_position = Max(pos, 0),
            !.track_duration = IF duration # None THEN Max(duration, 0)
                               ELSE @,
            !.last_sync_instant = t]

prepare_sync_preview(s, pos, duration) ==
  [s EXCEPT !.synced_position = Max(pos, 0),
            !.track_duration = IF duration # None THEN Max(duration, 0)
                               ELSE @,
            !.last_sync_instant = None]

clear_sync(s) ==
  [s EXCEPT !.synced_position = 0, !.track_duration = 0,
            !.last_sync_instant = None]

\* the position without the clamp to the duration
computed_position_unclamped(s, t) ==
  IF s.user_paused \/ s.player_status # "Playing"
  THEN s.synced_position
  ELSE IF s.last_sync_instant # None
  THEN s.synced_position + (t - s.last_sync_instant)
  ELSE s.synced_position

\* computed_position at instant t
computed_position(s, t) ==
  IF s.user_paused \/ s.player_status # "Playing"
  THEN Min(s.synced_position, s.track_duration)
  ELSE IF s.last_sync_instant # None
  THEN Min(s.synced_position + (t - s.last_sync_instant), s.track_duration)
  ELSE Min(s.synced_position, s.track_duration)

\* Option<Track>::map(|t| t.duration)
DurationOf(track) == IF track = NoTrack THEN None ELSE track.duration

\* --------------------------------------------------------- what arrives
TrackIds == {"abc", "xyz"}
\* the tracks the server describes in its state events
ServerTracks == {Track("abc", 20000), Track("xyz", 5000)}
\* Option::None of an Option<f64> payload field
Absent == [fin |-> FALSE, v |-> 2]
\* sync_play payloads
SyncPlayTimes ==
  {[server_time |-> F(1000), play_at |-> F(1500)],
   [server_time |-> F(1000), play_at |-> Absent],
   [server_time |-> F(-F64_MAX), play_at |-> F(F64_MAX)]}
SyncPlayEvents ==
  {[track_id |-> id, position |-> 10000, server_time |-> t.server_time,
    play_at |-> t.play_at] : id \in TrackIds \cup {"none"},
                             t \in SyncPlayTimes}
\* state payloads
StateEvents ==
  [status : {"playing", "paused"},
   current_track : ServerTracks \cup {NoTrack},
   position : {None, 3000}]
NoEvent ==
  [track_id |-> "none", position |-> 0, server_time |-> F(0),
   play_at |-> F(0), received |-> 0, loaded |-> "none",
   playing |-> FALSE]
\* the position the server's position endpoint reports to play_from; 0 also
\* stands for a request that failed or a body without a position
ServerPositions == {0, 10450}
TickSteps == {150, 450}

\* The scenario: sync_play{trackId "abc", position 10.0, serverTime 1000,
\* playAt 1500} received at 1050.  A scheduled start or a restart carries
\* scen while it stems from that event, handled with no time elapsed and with
\* nothing else scheduled or in progress, and no event or command has arrived
\* since.
IsScenario(ev) ==
  /\ ev.track_id = "abc" /\ ev.position = 10000
  /\ ev.server_time = F(1000) /\ ev.play_at = F(1500)
  /\ ev.received = StartTime

NoDelay ==
  [set |-> FALSE, ev |-> NoEvent, current_time |-> 0, delay |-> 0,
   inline |-> FALSE, why |-> "none"]
NoRestart ==
  [res |-> "none", origin |-> "none", scen |-> FALSE,
   start |-> None, anchor |-> None, paused |-> FALSE,
   superseded |-> FALSE]

\* the client after construction, the event stream connected
AppNew ==
  /\ app_state = AppStateNew
  /\ now = StartTime
  /\ loopPc = "idle"
  /\ loopEv = NoEvent
  /\ timers = <<>>
  /\ restarts = <<>>
  /\ sink = "none"
  /\ uiPc = "idle"
  /\ events = 0
  /\ commands = 0
  /\ lastDelay = NoDelay
  /\ lastRestart = NoRestart

\* Every step but the one that computes a delay or finishes a restart clears
\* the observation of it.
Quiet == lastDelay' = NoDelay /\ lastRestart' = NoRestart

\* An event or a command arrives: the starts already scheduled or in
\* progress are no longer the only thing acting on the state.
Disturbed(seq) == [i \in 1..Len(seq) |-> [seq[i] EXCEPT !.scen = FALSE]]
\* The user pauses, or another restart is started: what the scheduled starts
\* still asleep have seen happen since they were scheduled.
Paused(seq) == [i \in 1..Len(seq) |-> [seq[i] EXCEPT !.paused = TRUE]]
Superseded(seq) ==
  [i \in 1..Len(seq) |-> [seq[i] EXCEPT !.superseded = TRUE]]
Remove(seq, i) == SubSeq(seq, 1, i - 1) \o SubSeq(seq, i + 1, Len(seq))
\* A call of sync_play_now, about to take its first step.  paused and
\* superseded are set for the call of a scheduled start that fires with the
\* user's pause still in force, or after another restart was started.
NewRestart(origin, scen) ==
  [pc |-> "stop", origin |-> origin, scen |-> scen,
   position |-> 0, duration |-> None, start |-> None,
   paused |-> FALSE, superseded |-> FALSE]

\* the clock
Tick(d) ==
  /\ now + d <= MaxTime
  /\ UNCHANGED <<streamVars, sseVars, lockVars, sourceVars>>
  /\ now' = now + d
  /\ Quiet
  /\ UNCHANGED <<app_state, loopPc, loopEv, timers, restarts, sink, uiPc,
                 events, commands>>

\* --------------------------------------------------- handle_sync_play_event
\* The event loop takes a sync_play block off the stream: received_time is
\* read, the track id is checked, and a placeholder track replaces the
\* current one when that is not the announced track.
handle_sync_play_event(ev) ==
  /\ loopPc = "idle"
  /\ events < MaxEvents
  /\ events' = events + 1
  /\ timers' = Disturbed(timers)
  /\ restarts' = Disturbed(restarts)
  /\ Quiet
  /\ UNCHANGED <<now, sink, uiPc, commands>>
  /\ IF ev.track_id = "none" THEN UNCHANGED <<app_state, loopPc, loopEv>>
     ELSE
       /\ loopEv' = [track_id |-> ev.track_id, position |-> ev.position,
                     server_time |-> IF ev.server_time = Absent THEN F(now)
                                     ELSE ev.server_time,
                     play_at |-> IF ev.play_at = Absent THEN F(now)
                                 ELSE ev.play_at,
                     received |-> now,
                     loaded |-> app_state.current_track.id,
                     playing |-> FALSE]
       /\ loopPc' = "sync"
       /\ app_state' =
            IF app_state.current_track.id = ev.track_id THEN app_state
            ELSE clear_sync(update_current_track(app_state,
                                                 Track(ev.track_id, 0)))

\* a sync_play event arrives
ReceiveSyncPlay(ev) ==
  /\ handle_sync_play_event(ev)
  /\ UNCHANGED <<streamVars, sseVars, lockVars, sourceVars>>

\* guard.update_sync(position, duration)
SyncPlayUpdate ==
  /\ loopPc = "sync"
  /\ UNCHANGED <<streamVars, sseVars, lockVars, sourceVars>>
  /\ app_state' = update_sync(app_state, loopEv.position,
                              DurationOf(app_state.current_track), now)
  /\ loopPc' = "paused"
  /\ Quiet
  /\ UNCHANGED <<now, loopEv, timers, restarts, sink, uiPc, events,
                 commands>>

\* the handler going on whatever the user did
returns_when_paused_never(s) == FALSE

\* if guard.user_paused { return }
returns_when_paused(s) == s.user_paused

SyncPlayCheckPaused ==
  /\ loopPc = "paused"
  /\ UNCHANGED <<streamVars, sseVars, lockVars, sourceVars>>
  /\ loopPc' = IF returns_when_paused(app_state) THEN "idle" ELSE "restart"
  /\ loopEv' = IF returns_when_paused(app_state) THEN NoEvent ELSE loopEv
  /\ lastDelay' = IF returns_when_paused(app_state)
                  THEN [NoDelay EXCEPT !.ev = loopEv, !.why = "paused"]
                  ELSE NoDelay
  /\ lastRestart' = NoRestart
  /\ UNCHANGED <<app_state, now, timers, restarts, sink, uiPc, events,
                 commands>>

\* every event restarting the playback
needs_restart_always(s, track_id) == TRUE

needs_restart(s, track_id) ==
  IF s.current_track # NoTrack /\ s.current_track.id = track_id
  THEN s.player_status # "Playing"
  ELSE TRUE

\* the server's buffer taken the wrong way round
TimeUntilPlayBackwards(ev, current_time) ==
  Sub(Sub(Sub(ev.server_time, ev.play_at),
          Sub(F(current_time), F(ev.received))),
      F(estimated_latency))

\* time_until_play, as an f64 and after the non-finite value is replaced
TimeUntilPlay(ev, current_time) ==
  Sub(Sub(Sub(ev.play_at, ev.server_time),
          Sub(F(current_time), F(ev.received))),
      F(estimated_latency))
TimeUntilPlayFinite(ev, current_time) ==
  IF is_finite(TimeUntilPlay(ev, current_time))
  THEN TimeUntilPlay(ev, current_time).v ELSE 0

\* needs_restart, the delay, and the start: at once, or by a spawned task
\* that sleeps first
SyncPlayDecide ==
  /\ loopPc = "restart"
  /\ UNCHANGED <<streamVars, sseVars, lockVars, sourceVars>>
  /\ UNCHANGED <<app_state, now, sink, uiPc, events, commands>>
  /\ loopEv' = NoEvent
  /\ lastRestart' = NoRestart
  /\ IF ~needs_restart(app_state, loopEv.track_id)
     THEN /\ loopPc' = "idle"
          /\ lastDelay' = [NoDelay EXCEPT !.ev = loopEv,
                                          !.why = "not_needed"]
          /\ UNCHANGED <<timers, restarts>>
     ELSE
       LET delay == TimeUntilPlayFinite(loopEv, now)
           alone == timers = <<>> /\ restarts = <<>> /\ uiPc = "idle"
           scen == IsScenario(loopEv) /\ now = loopEv.received /\ alone
       IN
       /\ lastDelay' = [set |-> TRUE, ev |-> loopEv, current_time |-> now,
                        delay |-> delay, inline |-> delay <= 0,
                        why |-> "restart"]
       /\ IF delay <= 0
          THEN /\ Len(restarts) < MaxRestarts
               /\ restarts' = Append(restarts,
                                     NewRestart("loop", scen))
               /\ loopPc' = "await"
               /\ timers' = Superseded(timers)
          ELSE /\ Len(timers) < MaxTimers
               /\ timers' = Append(Superseded(timers),
                                   [deadline |-> now + delay,
                                    scen |-> scen, paused |-> FALSE,
                                    superseded |-> FALSE])
               /\ loopPc' = "idle"
               /\ UNCHANGED restarts

\* tokio::time::sleep(delay) is over: the spawned task calls sync_play_now
TimerFires(i) ==
  /\ i \in 1..Len(timers)
  /\ UNCHANGED <<streamVars, sseVars, lockVars, sourceVars>>
  /\ timers[i].deadline <= now
  /\ Len(restarts) < MaxRestarts
  /\ restarts' =
       Append(restarts,
              [NewRestart("timer", timers[i].scen) EXCEPT
                 !.paused = timers[i].paused /\ app_state.user_paused,
                 !.superseded = timers[i].superseded])
  /\ timers' = Remove(timers, i)
  /\ Quiet
  /\ UNCHANGED <<app_state, now, loopPc, loopEv, sink, uiPc, events,
                 commands>>

\* ------------------------------------------------------------ sync_play_now
\* audio.lock().await.stop()
RestartStop(i) ==
  /\ i \in 1..Len(restarts)
  /\ UNCHANGED <<streamVars, sseVars, lockVars, sourceVars>>
  /\ restarts[i].pc = "stop"
  /\ sink' = "none"
  /\ restarts' = [restarts EXCEPT ![i].pc = "read"]
  /\ Quiet
  /\ UNCHANGED <<app_state, now, loopPc, loopEv, timers, uiPc, events,
                 commands>>

\* the call is over: it leaves the calls in progress, and the event loop goes
\* on when it was awaiting it
Ended(i) ==
  /\ restarts' = Remove(restarts, i)
  /\ loopPc' = IF restarts[i].origin = "loop" THEN "idle" ELSE loopPc

\* the first block under the state lock: the position and the duration are
\* read, the status is set
RestartRead(i) ==
  /\ i \in 1..Len(restarts)
  /\ UNCHANGED <<streamVars, sseVars, lockVars, sourceVars>>
  /\ restarts[i].pc = "read"
  /\ lastDelay' = NoDelay
  /\ UNCHANGED <<now, loopEv, timers, sink, uiPc, events, commands>>
  /\ IF app_state.current_track = NoTrack
     THEN /\ Ended(i)
          /\ lastRestart' = [NoRestart EXCEPT !.res = "no_track",
                               !.origin = restarts[i].origin,
                               !.scen = restarts[i].scen,
                               !.paused = restarts[i].paused,
                               !.superseded = restarts[i].superseded]
          /\ UNCHANGED app_state
     ELSE /\ restarts' =
               [restarts EXCEPT
                  ![i].pc = "preview",
                  ![i].position = computed_position(app_state, now),
                  ![i].duration = IF app_state.track_duration > 0
                                  THEN app_state.track_duration ELSE None]
          /\ app_state' =
               set_user_paused(update_player_status(app_state, "Playing"),
                               FALSE)
          /\ lastRestart' = NoRestart
          /\ UNCHANGED loopPc

\* guard.prepare_sync_preview(playback_position, duration_opt)
RestartPreview(i) ==
  /\ i \in 1..Len(restarts)
  /\ UNCHANGED <<streamVars, sseVars, lockVars, sourceVars>>
  /\ restarts[i].pc = "preview"
  /\ app_state' = prepare_sync_preview(app_state, restarts[i].position,
                                       restarts[i].duration)
  /\ restarts' = [restarts EXCEPT ![i].pc = "play"]
  /\ Quiet
  /\ UNCHANGED <<now, loopPc, loopEv, timers, sink, uiPc, events,
                 commands>>

\* AudioManager::play_from: the position it targets
target_position(server_position, start_position) ==
  IF server_position > 100 THEN server_position ELSE start_position

\* the position the new source is skipped to: decoder.skip_duration is
\* applied only to a skip of more than 0.1 s
skip_seconds(residual_skip) ==
  IF residual_skip > 100 THEN residual_skip ELSE 0

\* audio_manager.play_from(url, playback_position, duration_opt): the old
\* sink is stopped, the server is asked for its position, and a new sink
\* plays from the target position, unless the stream or the decoder fails
RestartPlay(i, ok, server_position) ==
  /\ i \in 1..Len(restarts)
  /\ UNCHANGED <<streamVars, sseVars, lockVars, sourceVars>>
  /\ restarts[i].pc = "play"
  /\ LET target == Max(target_position(server_position,
                                       restarts[i].position), 0)
     IN /\ sink' = IF ok THEN "playing" ELSE "none"
        /\ restarts' = [restarts EXCEPT
                          ![i].pc = IF ok THEN "started" ELSE "failed",
                          ![i].start = IF ok THEN skip_seconds(target)
                                       ELSE None]
  /\ Quiet
  /\ UNCHANGED <<app_state, now, loopPc, loopEv, timers, uiPc, events,
                 commands>>

\* the last block under the state lock, after play_from returned
RestartFinish(i) ==
  /\ i \in 1..Len(restarts)
  /\ UNCHANGED <<streamVars, sseVars, lockVars, sourceVars>>
  /\ restarts[i].pc \in {"started", "failed"}
  /\ Ended(i)
  /\ app_state' =
       IF restarts[i].pc = "failed"
       THEN clear_sync(update_player_status(app_state, "Stopped"))
       ELSE update_sync(
              set_user_paused(update_player_status(app_state, "Playing"),
                              FALSE),
              restarts[i].position, restarts[i].duration, now)
  /\ lastRestart' =
       [res |-> IF restarts[i].pc = "failed" THEN "err" ELSE "ok",
        origin |-> restarts[i].origin, scen |-> restarts[i].scen,
        start |-> restarts[i].start,
        anchor |-> IF restarts[i].pc = "failed" THEN None
                   ELSE restarts[i].position,
        paused |-> restarts[i].paused,
        superseded |-> restarts[i].superseded]
  /\ lastDelay' = NoDelay
  /\ UNCHANGED <<now, loopEv, timers, sink, uiPc, events, commands>>

\* -------------------------------------------------------- apply_state_event
\* the status of every state event is taken over
status_follows_server_always(s) == TRUE

\* "Only sync player status if we're already playing"
status_follows_server(s) == ~s.user_paused /\ s.player_status = "Playing"

\* the block under the state lock
apply_state_event(data) ==
  /\ loopPc = "idle"
  /\ events < MaxEvents
  /\ LET s1 == IF data.status = "none" THEN app_state
               ELSE IF status_follows_server(app_state)
               THEN update_player_status(app_state, from_str(data.status))
               ELSE app_state
         changed == IF data.current_track # NoTrack
                    THEN track_changed(s1, data.current_track)
                    ELSE s1.current_track # NoTrack
         s2 == IF data.current_track # NoTrack
               THEN update_current_track(s1, data.current_track)
               ELSE IF s1.current_track # NoTrack
               THEN clear_sync(update_current_track(s1, NoTrack))
               ELSE s1
         s3 == IF data.position # None
               THEN update_sync(s2, data.position,
                                DurationOf(s2.current_track), now)
               ELSE s2
     IN /\ app_state' = s3
        /\ loopPc' = IF changed THEN "changed" ELSE "idle"
        /\ loopEv' =
             IF changed
             THEN [NoEvent EXCEPT
                     !.track_id = data.current_track.id,
                     !.received = now,
                     !.loaded = app_state.current_track.id,
                     !.playing = /\ app_state.player_status = "Playing"
                                 /\ ~app_state.user_paused]
             ELSE NoEvent
  /\ events' = events + 1
  /\ timers' = Disturbed(timers)
  /\ restarts' = Disturbed(restarts)
  /\ Quiet
  /\ UNCHANGED <<now, sink, uiPc, commands>>

\* a state event arrives
ReceiveState(data) ==
  /\ apply_state_event(data)
  /\ UNCHANGED <<streamVars, sseVars, lockVars, sourceVars>>

\* the track changed: should_start_playback, and the spawned sync_play_now
StateChanged ==
  /\ loopPc = "changed"
  /\ UNCHANGED <<streamVars, sseVars, lockVars, sourceVars>>
  /\ loopPc' = "idle"
  /\ loopEv' = NoEvent
  /\ IF /\ app_state.current_track # NoTrack
        /\ app_state.player_status = "Playing"
        /\ ~app_state.user_paused
     THEN /\ Len(restarts) < MaxRestarts
          /\ restarts' = Append(restarts, NewRestart("state", FALSE))
          /\ timers' = Superseded(timers)
     ELSE UNCHANGED <<restarts, timers>>
  /\ Quiet
  /\ UNCHANGED <<app_state, now, sink, uiPc, events, commands>>

\* --------------------------------------------------------------- play_pause
\* the command up to the release of the state lock
play_pause ==
  /\ uiPc = "idle"
  /\ UNCHANGED <<streamVars, sseVars, lockVars, sourceVars>>
  /\ commands < MaxCommands
  /\ commands' = commands + 1
  /\ Quiet
  /\ UNCHANGED <<now, loopPc, loopEv, sink, events>>
  /\ IF ~app_state.user_paused /\ app_state.player_status = "Playing"
     THEN /\ app_state' =
               LET pos == computed_position(app_state, now)
                   s1 == update_player_status(
                           set_user_paused(app_state, TRUE), "Paused")
               IN update_sync(s1, pos, s1.track_duration, now)
          /\ uiPc' = "stop"
          /\ timers' = Paused(Disturbed(timers))
          /\ restarts' = Disturbed(restarts)
     ELSE /\ Len(restarts) < MaxRestarts
          /\ app_state' = set_user_paused(app_state, FALSE)
          /\ timers' = Superseded(Disturbed(timers))
          /\ restarts' = Append(Disturbed(restarts),
                                NewRestart("ui", FALSE))
          /\ UNCHANGED uiPc

\* audio.lock().await.stop() of the pause path
PauseStop ==
  /\ uiPc = "stop"
  /\ UNCHANGED <<streamVars, sseVars, lockVars, sourceVars>>
  /\ uiPc' = "idle"
  /\ sink' = "none"
  /\ Quiet
  /\ UNCHANGED <<app_state, now, loopPc, loopEv, timers, restarts, events,
                 commands>>

\* ---------------------------------------------------------- the event stream
\* Text is a sequence of tokens: "\n", "\r", " " and ":" are single
\* characters, every other token stands for the characters of a word.
whitespace == {" ", "\r"}

RECURSIVE trim_start(_)
trim_start(s) ==
  IF s # <<>> /\ Head(s) \in whitespace THEN trim_start(Tail(s)) ELSE s

RECURSIVE trim_end(_)
trim_end(s) ==
  IF s # <<>> /\ s[Len(s)] \in whitespace
  THEN trim_end(SubSeq(s, 1, Len(s) - 1))
  ELSE s

trim(s) == trim_end(trim_start(s))

\* String::from_utf8_lossy(&data) on one chunk.  "C3" and "A9" are the two
\* bytes of one character, "e'" that character, "U+FFFD" the replacement
\* character put for a byte sequence that is not a whole character; every
\* other token is ASCII.
RECURSIVE from_utf8_lossy(_)
from_utf8_lossy(data) ==
  IF data = <<>> THEN <<>>
  ELSE IF Head(data) = "C3" /\ Len(data) >= 2 /\ data[2] = "A9"
  THEN <<"e'">> \o from_utf8_lossy(Tail(Tail(data)))
  ELSE IF Head(data) \in {"C3", "A9"}
  THEN <<"U+FFFD">> \o from_utf8_lossy(Tail(data))
  ELSE <<Head(data)>> \o from_utf8_lossy(Tail(data))

\* text.replace('\r', "")
RemoveCr(s) == SelectSeq(s, LAMBDA c : c # "\r")

\* buffer.find("\n\n"): the index of the first blank-line delimiter, or 0
find_delimiter(buf) ==
  LET at == {i \in 1..(Len(buf) - 1) : buf[i] = "\n" /\ buf[i + 1] = "\n"}
  IN IF at = {} THEN 0 ELSE CHOOSE i \in at : \A j \in at : i <= j

\* block.lines()
RECURSIVE lines(_)
lines(s) ==
  LET nl == {i \in 1..Len(s) : s[i] = "\n"}
  IN IF s = <<>> THEN <<>>
     ELSE IF nl = {} THEN <<s>>
     ELSE LET i == CHOOSE k \in nl : \A j \in nl : k <= j
          IN <<SubSeq(s, 1, i - 1)>> \o lines(SubSeq(s, i + 1, Len(s)))

\* the data lines joined last to first
RECURSIVE join_reversed(_)
join_reversed(ls) ==
  IF ls = <<>> THEN <<>>
  ELSE IF Len(ls) = 1 THEN ls[1]
  ELSE join_reversed(Tail(ls)) \o <<"\n">> \o ls[1]

\* data_lines.join("\n")
RECURSIVE join(_)
join(ls) ==
  IF ls = <<>> THEN <<>>
  ELSE IF Len(ls) = 1 THEN ls[1]
  ELSE ls[1] \o <<"\n">> \o join(Tail(ls))

NoType == [some |-> FALSE, name |-> <<>>]

\* one turn of the loop over the lines of a block
parse_line(acc, line) ==
  IF (line # <<>> /\ line[1] = ":") \/ trim(line) = <<>> THEN acc
  ELSE IF line[1] = "event:"
  THEN [acc EXCEPT !.event_type = [some |-> TRUE, name |-> trim(Tail(line))]]
  ELSE IF line[1] = "data:"
  THEN [acc EXCEPT !.data_lines = Append(@, trim_start(Tail(line)))]
  ELSE acc

RECURSIVE parse_lines(_, _)
parse_lines(acc, ls) ==
  IF ls = <<>> THEN acc
  ELSE parse_lines(parse_line(acc, Head(ls)), Tail(ls))

\* the event type and the payload process_sse_block hands to handle_event
parse_block(block) ==
  LET acc == parse_lines([event_type |-> NoType, data_lines |-> <<>>],
                         lines(block))
  IN [event_type |-> acc.event_type, payload |-> join(acc.data_lines)]

\* --- serde_json::from_str on a payload
\* A payload is an object of fields; a field token stands for "key": value.
FieldKey ==
  [status_playing |-> "status", status_paused |-> "status",
   currentTrack_abc |-> "currentTrack", currentTrack_xyz |-> "currentTrack",
   position_3 |-> "position", position_10 |-> "position",
   position_text |-> "position",
   trackId_abc |-> "trackId", trackId_xyz |-> "trackId",
   serverTime_1000 |-> "serverTime", playAt_1100 |-> "playAt"]
FieldTokens == DOMAIN FieldKey
\* a field whose value has not the type of the struct's field
WrongType == {"position_text"}

json_whitespace == {" ", "\n", "\r"}
Significant(p) == SelectSeq(p, LAMBDA c : c \notin json_whitespace)

\* the fields of the object the text denotes, in order; <<"malformed">> when
\* the text is not one JSON object
Fields(p) ==
  LET q == Significant(p)
      n == Len(q)
      inner == SubSeq(q, 2, n - 1)
      m == Len(inner)
  IN IF n < 2 \/ q[1] # "{" \/ q[n] # "}" THEN <<"malformed">>
     ELSE IF m = 0 THEN <<>>
     ELSE IF /\ m % 2 = 1
             /\ \A i \in 1..m : IF i % 2 = 1 THEN inner[i] \in FieldTokens
                                ELSE inner[i] = ","
     THEN [i \in 1..((m + 1) \div 2) |-> inner[2 * i - 1]]
     ELSE <<"malformed">>

\* a decoder that takes every text for an object
Deserializes_lenient(p, keys) == TRUE

\* the derived Deserialize: fields of other names are skipped, a field of
\* the struct given twice or with a value of the wrong type is an error
Deserializes(p, keys) ==
  LET fs == Fields(p)
  IN /\ fs # <<"malformed">>
     /\ \A i \in 1..Len(fs) : FieldKey[fs[i]] \in keys => fs[i] \notin WrongType
     /\ \A i, j \in 1..Len(fs) :
          (i # j /\ FieldKey[fs[i]] \in keys) => FieldKey[fs[i]] # FieldKey[fs[j]]

Has(p, tok) == \E i \in 1..Len(Fields(p)) : Fields(p)[i] = tok

StateKeys == {"status", "currentTrack", "queue", "position"}
SyncPlayKeys == {"trackId", "position", "serverTime", "playAt"}

\* StateEventPayload
StateEventPayload(p) ==
  [status |-> IF Has(p, "status_playing") THEN "playing"
              ELSE IF Has(p, "status_paused") THEN "paused" ELSE "none",
   current_track |-> IF Has(p, "currentTrack_abc") THEN Track("abc", 20000)
                     ELSE IF Has(p, "currentTrack_xyz")
                     THEN Track("xyz", 5000) ELSE NoTrack,
   position |-> IF Has(p, "position_3") THEN 3000
                ELSE IF Has(p, "position_10") THEN 10000 ELSE None]

\* SyncPlayEventPayload, position.unwrap_or(0.0) applied
SyncPlayEventPayload(p) ==
  [track_id |-> IF Has(p, "trackId_abc") THEN "abc"
                ELSE IF Has(p, "trackId_xyz") THEN "xyz" ELSE "none",
   position |-> IF Has(p, "position_3") THEN 3000
                ELSE IF Has(p, "position_10") THEN 10000 ELSE 0,
   server_time |-> IF Has(p, "serverTime_1000") THEN F(1000) ELSE Absent,
   play_at |-> IF Has(p, "playAt_1100") THEN F(1100) ELSE Absent]

\* what handle_event does with an event: "state" and "sync_play" hand the
\* decoded payload to their handler, or return the decoder's error; every
\* other type returns Ok(())
handle_event_kind(event, payload) ==
  IF event = <<"state">>
  THEN (IF Deserializes(payload, StateKeys) THEN "state" ELSE "err")
  ELSE IF event = <<"sync_play">>
  THEN (IF Deserializes(payload, SyncPlayKeys) THEN "sync_play" ELSE "err")
  ELSE "ok"

\* what process_sse_block does with a block
block_kind(block) ==
  LET b == parse_block(block)
  IN IF ~b.event_type.some THEN "no_event"
     ELSE handle_event_kind(b.event_type.name, b.payload)

\* --- what the server sends on one connection
BlockEnd == <<"\n", "\n">>
\* a comment, CRLF line ends, the event type, a payload on two data lines
StateBlock ==
  <<":", "event:", "ping", "\r", "\n", "event:", " ", "state", "\r", "\n",
    "data:", " ", "{", "currentTrack_abc", ",", "\n",
    "data:", "position_3", "}">> \o BlockEnd
\* serverTime 1000, playAt 1100: the start is due 50 ms after the event
SyncPlayBlock ==
  <<"event:", "sync_play", "\n", "data:", "{", "trackId_abc", ",",
    "position_10", ",", "serverTime_1000", ",", "playAt_1100", "}">>
  \o BlockEnd
\* no playAt, no serverTime: the start is due at once
SyncPlayNowBlock ==
  <<"event:", "sync_play", "\n", "data:", "{", "trackId_xyz", "}">>
  \o BlockEnd
\* a payload and no line that begins with "event:"
NoEventBlock ==
  <<":", "event:", "state", "\n", " ", "event:", "state", "\n",
    "data:", "{", "currentTrack_abc", "}">> \o BlockEnd
\* malformed: the object is not closed
TruncatedStateBlock ==
  <<"event:", "state", "\n", "data:", "{", "currentTrack_abc">>
  \o BlockEnd
\* malformed: a value of the wrong type
BadSyncPlayBlock ==
  <<"event:", "sync_play", "\n", "data:", "{", "trackId_abc", ",",
    "position_text", "}">> \o BlockEnd
HeartbeatBlock ==
  <<"event:", "heartbeat", "\n", "data:", "{", "currentTrack_xyz", "}">>
  \o BlockEnd
\* a payload holding a character of two bytes
TitleBlock ==
  <<"event:", "heartbeat", "\n", "data:", "C3", "A9">> \o BlockEnd
\* an unknown type with a state payload
UnknownBlock ==
  <<"id:", "7", "\n", "event:", "ping", "\n", "data:", "{",
    "currentTrack_xyz", "}">> \o BlockEnd
\* two event lines
TwoTypesBlock ==
  <<"event:", "ping", "\n", "event:", "state", "\n", "data:", "{",
    "status_paused", "}">> \o BlockEnd

Streams ==
  {StateBlock \o SyncPlayBlock,
   SyncPlayNowBlock \o TwoTypesBlock,
   NoEventBlock \o HeartbeatBlock \o UnknownBlock,
   TruncatedStateBlock \o BadSyncPlayBlock \o SyncPlayBlock,
   TitleBlock,
   <<>>}
NoStream == [text |-> <<>>, pos |-> 0]

\* --- run_event_loop and establish_sse
RECURSIVE Pow2(_)
Pow2(n) == IF n = 0 THEN 1 ELSE 2 * Pow2(n - 1)

\* the delay (s) before the next connection attempt
reconnect_delay(attempts) ==
  Min(INITIAL_RECONNECT_DELAY * Pow2(Min(attempts, 5)), MAX_RECONNECT_DELAY)

\* a response that stays open
dropped_not(n) == n

\* the response is dropped when establish_sse returns
dropped(n) == 0

\* establish_sse has returned: the match on its result, and the delay
establish_sse_returns(result) ==
  /\ result = "Ok" \/ reconnect_attempts < MaxAttempts
  /\ reconnect_attempts' = IF result = "Ok" THEN 0
                           ELSE reconnect_attempts + 1
  /\ sleep_secs' = reconnect_delay(reconnect_attempts')
  /\ ssePc' = "sleep"
  /\ conns' = dropped(conns)
  /\ stream' = NoStream
  /\ sse_buffer' = <<>>
  /\ UNCHANGED backend_url

\* Option::None of AppState::backend_url
NoUrl == "none"
Urls == {"", "miu"}

\* connect_to_server, its block under the state lock: set_server_url
set_server_url(url) ==
  /\ backend_url' = IF url = "" THEN backend_url ELSE "miu/backend"
  /\ UNCHANGED <<ssePc, reconnect_attempts, sleep_secs, conns, stream,
                 sse_buffer, failures>>
  /\ UNCHANGED <<streamVars, syncVars, lockVars, sourceVars>>

\* the top of the loop: guard.backend_url()
CheckUrl ==
  /\ ssePc = "check"
  /\ ssePc' = IF backend_url # NoUrl THEN "send" ELSE "poll"
  /\ UNCHANGED <<backend_url, reconnect_attempts, sleep_secs, conns, stream,
                 sse_buffer, failures>>
  /\ UNCHANGED <<streamVars, syncVars, lockVars, sourceVars>>

\* sleep(Duration::from_millis(500)) is over
PollWake ==
  /\ ssePc = "poll"
  /\ ssePc' = "check"
  /\ UNCHANGED <<backend_url, reconnect_attempts, sleep_secs, conns, stream,
                 sse_buffer, failures>>
  /\ UNCHANGED <<streamVars, syncVars, lockVars, sourceVars>>

\* send() fails
SendFails ==
  /\ ssePc = "send"
  /\ establish_sse_returns("Err")
  /\ failures' = failures + 1
  /\ UNCHANGED <<streamVars, syncVars, lockVars, sourceVars>>

\* send() returns a response: a non-success status is an error, a success
\* status opens the stream of what the server goes on to send
Response(success, text) ==
  /\ ssePc = "send"
  /\ IF success
     THEN /\ ssePc' = "open"
          /\ conns' = conns + 1
          /\ stream' = [text |-> text, pos |-> 0]
          /\ sse_buffer' = <<>>
          /\ failures' = 0
          /\ UNCHANGED <<backend_url, reconnect_attempts, sleep_secs>>
     ELSE /\ establish_sse_returns("Err")
          /\ failures' = failures + 1
  /\ UNCHANGED <<streamVars, syncVars, lockVars, sourceVars>>

\* stream.next() yields a chunk of n tokens
StreamChunk(n) ==
  /\ ssePc = "open"
  /\ stream.pos + n <= Len(stream.text)
  /\ stream' = [stream EXCEPT !.pos = @ + n]
  /\ sse_buffer' =
       sse_buffer \o RemoveCr(from_utf8_lossy(
                                SubSeq(stream.text, stream.pos + 1,
                                       stream.pos + n)))
  /\ ssePc' = "blocks"
  /\ UNCHANGED <<backend_url, reconnect_attempts, sleep_secs, conns,
                 failures>>
  /\ UNCHANGED <<streamVars, syncVars, lockVars, sourceVars>>

\* stream.next() yields an error
ChunkError ==
  /\ ssePc = "open"
  /\ establish_sse_returns("Err")
  /\ UNCHANGED failures
  /\ UNCHANGED <<streamVars, syncVars, lockVars, sourceVars>>

\* stream.next() yields None: the server has sent everything and closed
StreamEnd ==
  /\ ssePc = "open"
  /\ stream.pos = Len(stream.text)
  /\ establish_sse_returns("Err")
  /\ UNCHANGED failures
  /\ UNCHANGED <<streamVars, syncVars, lockVars, sourceVars>>

\* the inner loop finds no delimiter: back to stream.next()
BlocksDone ==
  /\ ssePc = "blocks"
  /\ loopPc = "idle"
  /\ find_delimiter(sse_buffer) = 0
  /\ ssePc' = "open"
  /\ UNCHANGED <<backend_url, reconnect_attempts, sleep_secs, conns, stream,
                 sse_buffer, failures>>
  /\ UNCHANGED <<streamVars, syncVars, lockVars, sourceVars>>

\* the inner loop cuts the next block off the buffer: process_sse_block
NextBlock ==
  /\ ssePc = "blocks"
  /\ loopPc = "idle"
  /\ find_delimiter(sse_buffer) # 0
  /\ LET idx == find_delimiter(sse_buffer)
         event_block == SubSeq(sse_buffer, 1, idx - 1)
         b == parse_block(event_block)
         kind == block_kind(event_block)
     IN /\ sse_buffer' = SubSeq(sse_buffer, idx + 2, Len(sse_buffer))
        /\ IF kind = "state"
           THEN apply_state_event(StateEventPayload(b.payload))
           ELSE IF kind = "sync_play"
           THEN handle_sync_play_event(SyncPlayEventPayload(b.payload))
           ELSE /\ Quiet
                /\ UNCHANGED <<app_state, now, loopPc, loopEv, timers,
                               restarts, sink, uiPc, events, commands>>
  /\ UNCHANGED <<backend_url, ssePc, reconnect_attempts, sleep_secs, conns,
                 stream, failures>>
  /\ UNCHANGED <<streamVars, lockVars, sourceVars>>

\* tokio::time::sleep(Duration::from_secs(delay)) is over
Wake ==
  /\ ssePc = "sleep"
  /\ ssePc' = "check"
  /\ UNCHANGED <<backend_url, reconnect_attempts, sleep_secs, conns, stream,
                 sse_buffer, failures>>
  /\ UNCHANGED <<streamVars, syncVars, lockVars, sourceVars>>

\* the supervisor before its first turn, no server configured
SseNew ==
  /\ backend_url = NoUrl
  /\ ssePc = "check"
  /\ reconnect_attempts = 0
  /\ sleep_secs = 0
  /\ conns = 0
  /\ stream = NoStream
  /\ sse_buffer = <<>>
  /\ failures = 0

\* the supervisor with the event stream connected at its first attempt
SseConnected ==
  /\ backend_url = "miu/backend"
  /\ ssePc = "open"
  /\ reconnect_attempts = 0
  /\ sleep_secs = 0
  /\ conns = 1
  /\ stream = NoStream
  /\ sse_buffer = <<>>
  /\ failures = 0

FetchTask ==
  \/ \E n \in 1..MaxChunk : FetchChunk(n)
  \/ FetchEnd
  \/ FetchTimeout
  \/ FetchError
  \/ ReissueOk
  \/ ReissueFail
  \/ TaskSend

Reader ==
  \/ \E len \in 1..MaxReadLen : ReadCall(len)
  \/ ReadResume
  \/ \E sf \in SeekFrom, probe \in ProbeOutcomes, resp \in OpenOutcomes :
        Seek(sf.whence, sf.off, probe, resp)

EventLoop ==
  \/ \E ev \in SyncPlayEvents : ReceiveSyncPlay(ev)
  \/ SyncPlayUpdate
  \/ SyncPlayCheckPaused
  \/ SyncPlayDecide
  \/ \E data \in StateEvents : ReceiveState(data)
  \/ StateChanged

Restart ==
  \/ \E i \in 1..MaxTimers : TimerFires(i)
  \/ \E i \in 1..MaxRestarts :
        \/ RestartStop(i)
        \/ RestartRead(i)
        \/ RestartPreview(i)
        \/ \E ok \in BOOLEAN, sp \in ServerPositions : RestartPlay(i, ok, sp)
        \/ RestartFinish(i)

Command == play_pause \/ PauseStop

\* the byte sources the AudioManager has created
Readers == 1..MaxReaders
NoReader == 0
\* a reader not yet created: no fetch_task handle, no task
Unborn == [state |-> "unborn", fetch_task |-> "None", live |-> 0]
\* AudioManager::new: no sink
NoSources ==
  /\ readers = [r \in Readers |-> Unborn]
  /\ manager_sink = NoReader
  /\ playPc = "idle"

\* ------------------------------------------------- the locks and the tasks
\* Arc<Mutex<AppState>>, Arc<Mutex<AudioManager>> and the four mutexes inside
\* the AudioManager
Locks == {"state", "audio", "sink", "last_sse_position", "last_sse_update",
          "buffer_health"}
\* the event-stream task, a user command, a scheduled start asleep on its
\* timer, the start spawned by a state event, and the spawned side-effect
\* tasks
Tasks == {"sse", "command", "timer", "start", "update", "prepare", "volume"}
Free == "free"
NotRunning == "none"

\* the steps of a task: <name>.lock().await, the drop of guards, an awaited
\* request / audio open / sleep, tokio::spawn, a condition on data that
\* either goes on or leaves out the next n steps, and the jump over an else
\* branch
lock(l) == [op |-> "lock", arg |-> l]
drop(ls) == [op |-> "drop", arg |-> ls]
io(what) == [op |-> "io", arg |-> what]
spawn(k) == [op |-> "spawn", arg |-> k]
branch(n) == [op |-> "branch", arg |-> n]
skip(n) == [op |-> "skip", arg |-> n]

\* AudioManager::stop: the three guards live until the function returns
stop ==
  <<lock("sink"), lock("last_sse_position"), lock("buffer_health"),
    drop({"sink", "last_sse_position", "buffer_health"})>>

\* AudioManager::update_from_sse: each guard dropped before the next lock
update_from_sse ==
  <<lock("last_sse_position"), drop({"last_sse_position"}),
    lock("last_sse_update"), drop({"last_sse_update"}),
    lock("buffer_health"), drop({"buffer_health"})>>

\* AudioManager::play_from; when the audio cannot be opened it returns before
\* the four locks (the next five steps)
play_from ==
  stop \o
  <<io("fetch_server_position"), io("spawn_blocking"), branch(5),
    lock("sink"), lock("last_sse_position"), lock("last_sse_update"),
    lock("buffer_health"),
    drop({"sink", "last_sse_position", "last_sse_update", "buffer_health"})>>

\* what sync_play_now does from its second state section on: the preview,
\* play_from under the AudioManager lock with the update task spawned when it
\* succeeded, and the final state section (Stopped on failure, Playing on
\* success)
sync_play_now_play ==
  <<lock("state"), drop({"state"}), lock("audio")>> \o
  [i \in 1..Len(play_from) |->
     IF play_from[i].op = "branch" THEN branch(play_from[i].arg + 1)
     ELSE play_from[i]] \o
  <<spawn("update"), drop({"audio"}), lock("state"), drop({"state"})>>

\* ServerClient::sync_play_now; without a current track or a stream URL it
\* returns from its first state section
sync_play_now ==
  <<lock("audio")>> \o stop \o
  <<drop({"audio"}), lock("state"), drop({"state"}),
    branch(Len(sync_play_now_play))>> \o
  sync_play_now_play

\* ServerClient::apply_state_event: the update task is spawned under the
\* state guard when the event has a position; the rest runs when the track
\* changed
apply_state_event_locks ==
  <<lock("state"), branch(1), spawn("update"), drop({"state"}),
    branch(8),
    branch(3), lock("state"), drop({"state"}), spawn("prepare"),
    lock("state"), drop({"state"}),
    branch(1), spawn("start")>>

\* ServerClient::handle_sync_play_event: five state sections, the second one
\* when the metadata is missing, with the returns for a paused user and for
\* a track already playing; then the update task, and sync_play_now inline
\* or on a timer
handle_sync_play_event_locks ==
  <<branch(17 + Len(sync_play_now)),
    lock("state"), drop({"state"}),
    branch(2), lock("state"), drop({"state"}),
    lock("state"), drop({"state"}),
    lock("state"), drop({"state"}),
    branch(7 + Len(sync_play_now)),
    lock("state"), drop({"state"}),
    branch(4 + Len(sync_play_now)),
    spawn("update"),
    branch(Len(sync_play_now) + 1)>> \o
  sync_play_now \o
  <<skip(1), spawn("timer")>>

\* main.rs play_pause, pause path: the state update, then the audio stop
play_pause_pause ==
  <<lock("state"), drop({"state"}), lock("audio")>> \o stop \o
  <<drop({"audio"})>>

\* main.rs play_pause, resume path: ServerClient::resume_playback reads the
\* backend URL (and returns without one), then sync_play_now
play_pause_resume ==
  <<lock("state"), drop({"state"}), lock("state"), drop({"state"}),
    branch(Len(sync_play_now))>> \o
  sync_play_now

\* main.rs set_volume: AudioManager::set_volume spawns the task that sets the
\* sink's volume; the configuration is saved afterwards
set_volume ==
  <<lock("state"), drop({"state"}), lock("audio"), spawn("volume"),
    drop({"audio"}), io("save")>>

\* the volume task taking the AudioManager lock inside the sink lock
set_volume_task_nested ==
  <<lock("sink"), lock("audio"), drop({"sink", "audio"})>>

\* the task spawned by AudioManager::set_volume
set_volume_task == <<lock("sink"), drop({"sink"})>>

\* the tasks spawned for update_from_sse and prepare_track_transition
update_task == <<lock("audio")>> \o update_from_sse \o <<drop({"audio"})>>
prepare_task == <<lock("audio"), io("head"), drop({"audio"})>>

\* the start scheduled by handle_sync_play_event
timer_task == <<io("sleep")>> \o sync_play_now

EventKinds == {"state", "sync_play"}
CommandKinds == {"pause", "resume", "set_volume"}

Program(name) ==
  CASE name = "state" -> apply_state_event_locks
    [] name = "sync_play" -> handle_sync_play_event_locks
    [] name = "pause" -> play_pause_pause
    [] name = "resume" -> play_pause_resume
    [] name = "set_volume" -> set_volume
    [] name = "timer" -> timer_task
    [] name = "start" -> sync_play_now
    [] name = "update" -> update_task
    [] name = "prepare" -> prepare_task
    [] name = "volume" -> set_volume_task

\* the step task t is at
Op(t) == Program(running[t])[taskAt[t]]
At(t, kind) == running[t] # NotRunning /\ Op(t).op = kind
Held(t) == {l \in Locks : owner[l] = t}

\* task t goes on taskAt step n of its program, or is over
Goto(t, n) ==
  IF n > Len(Program(running[t]))
  THEN /\ taskAt' = [taskAt EXCEPT ![t] = 0]
       /\ running' = [running EXCEPT ![t] = NotRunning]
  ELSE /\ taskAt' = [taskAt EXCEPT ![t] = n]
       /\ UNCHANGED running

LocksFree ==
  /\ owner = [l \in Locks |-> Free]
  /\ taskAt = [t \in Tasks |-> 0]
  /\ running = [t \in Tasks |-> NotRunning]
  /\ spawned = [t \in Tasks |-> 0]
  /\ started = 0

\* the event-stream task takes the next event
HandleEvent(kind) ==
  /\ running["sse"] = NotRunning
  /\ started < MaxLockRuns
  /\ started' = started + 1
  /\ running' = [running EXCEPT !["sse"] = kind]
  /\ taskAt' = [taskAt EXCEPT !["sse"] = 1]
  /\ UNCHANGED <<owner, spawned>>
  /\ UNCHANGED <<streamVars, syncVars, sseVars, sourceVars>>

\* the user gives a command
Invoke(kind) ==
  /\ running["command"] = NotRunning
  /\ started < MaxLockRuns
  /\ started' = started + 1
  /\ running' = [running EXCEPT !["command"] = kind]
  /\ taskAt' = [taskAt EXCEPT !["command"] = 1]
  /\ UNCHANGED <<owner, spawned>>
  /\ UNCHANGED <<streamVars, syncVars, sseVars, sourceVars>>

\* a spawned task starts to run
Run(t) ==
  /\ running[t] = NotRunning
  /\ spawned[t] > 0
  /\ spawned' = [spawned EXCEPT ![t] = @ - 1]
  /\ running' = [running EXCEPT ![t] = t]
  /\ taskAt' = [taskAt EXCEPT ![t] = 1]
  /\ UNCHANGED <<owner, started>>
  /\ UNCHANGED <<streamVars, syncVars, sseVars, sourceVars>>

\* Mutex::lock().await returns once the mutex is free
Acquire(t) ==
  /\ At(t, "lock")
  /\ owner[Op(t).arg] = Free
  /\ owner' = [owner EXCEPT ![Op(t).arg] = t]
  /\ Goto(t, taskAt[t] + 1)
  /\ UNCHANGED <<spawned, started>>
  /\ UNCHANGED <<streamVars, syncVars, sseVars, sourceVars>>

\* guards go out of scope
Release(t) ==
  /\ At(t, "drop")
  /\ owner' = [l \in Locks |-> IF l \in Op(t).arg THEN Free ELSE owner[l]]
  /\ Goto(t, taskAt[t] + 1)
  /\ UNCHANGED <<spawned, started>>
  /\ UNCHANGED <<streamVars, syncVars, sseVars, sourceVars>>

\* an awaited request, audio open or sleep completes
BlockingIo(t) ==
  /\ At(t, "io")
  /\ Goto(t, taskAt[t] + 1)
  /\ UNCHANGED <<owner, spawned, started>>
  /\ UNCHANGED <<streamVars, syncVars, sseVars, sourceVars>>

\* tokio::spawn
SpawnTask(t) ==
  /\ At(t, "spawn")
  /\ spawned' = [spawned EXCEPT ![Op(t).arg] = @ + 1]
  /\ Goto(t, taskAt[t] + 1)
  /\ UNCHANGED <<owner, started>>
  /\ UNCHANGED <<streamVars, syncVars, sseVars, sourceVars>>

\* a condition on the data
Branch(t) ==
  /\ \/ At(t, "branch") /\ \E n \in {0, Op(t).arg} : Goto(t, taskAt[t] + 1 + n)
     \/ At(t, "skip") /\ Goto(t, taskAt[t] + 1 + Op(t).arg)
  /\ UNCHANGED <<owner, spawned, started>>
  /\ UNCHANGED <<streamVars, syncVars, sseVars, sourceVars>>

LockInit ==
  /\ HttpStreamReaderNew(ResourceLen)
  /\ AppNew
  /\ SseConnected
  /\ LocksFree
  /\ NoSources

LockNext ==
  \/ \E kind \in EventKinds : HandleEvent(kind)
  \/ \E kind \in CommandKinds : Invoke(kind)
  \/ \E t \in Tasks :
        \/ Run(t)
        \/ Acquire(t)
        \/ Release(t)
        \/ BlockingIo(t)
        \/ SpawnTask(t)
        \/ Branch(t)

LockSpec == LockInit /\ [][LockNext]_vars

\* ------------------------------------- the byte sources of the AudioManager
\* the reader play_from creates next
NextReader ==
  CHOOSE r \in Readers :
    /\ readers[r].state = "unborn"
    /\ \A q \in Readers : readers[q].state = "unborn" => r <= q

\* HttpStreamReader::abort_fetcher on reader r: the task behind the handle is
\* aborted and the handle taken
abort_fetcher(r) ==
  [readers[r] EXCEPT !.fetch_task = "None",
                     !.live = IF readers[r].fetch_task = "Some" THEN 0 ELSE @]

\* what start_stream does to reader r once the response is accepted:
\* abort_fetcher, then the new task spawned and its handle kept
respawned(r) ==
  [abort_fetcher(r) EXCEPT !.fetch_task = "Some", !.live = @ + 1]

\* the body of AudioManager::stop: sink.stop() on the sink taken out of the
\* manager and the Sink handle dropped; the source, and the reader inside
\* its decoder, stay with the audio thread until it discards them
StopSink ==
  IF manager_sink = NoReader
  THEN UNCHANGED <<readers, manager_sink>>
  ELSE /\ readers' = [readers EXCEPT ![manager_sink].state = "stopped"]
       /\ manager_sink' = NoReader

\* AudioManager::stop, from play_pause or at the start of sync_play_now
ManagerStop ==
  /\ playPc = "idle"
  /\ StopSink
  /\ UNCHANGED playPc
  /\ UNCHANGED <<streamVars, syncVars, sseVars, lockVars>>

\* AudioManager::play_from up to its first await after self.stop()
PlayFromStop ==
  /\ playPc = "idle"
  /\ \E r \in Readers : readers[r].state = "unborn"
  /\ StopSink
  /\ playPc' = "open"
  /\ UNCHANGED <<streamVars, syncVars, sseVars, lockVars>>

\* AudioManager::play_from, the spawn_blocking part: HttpStreamReader::new
\* fails before a task is spawned, or the reader is created and dropped
\* again with the decoder or the sink that could not be made, or the source
\* is appended to the new sink
PlayFromOpen(res) ==
  /\ playPc = "open"
  /\ playPc' = "idle"
  /\ LET r == NextReader
     IN CASE res = "request_fails" -> UNCHANGED <<readers, manager_sink>>
          [] res = "decoder_fails" ->
               /\ readers' = [readers EXCEPT ![r] =
                    [state |-> "dropped", fetch_task |-> "None", live |-> 0]]
               /\ UNCHANGED manager_sink
          [] res = "ok" ->
               /\ readers' = [readers EXCEPT ![r] =
                    [state |-> "sink", fetch_task |-> "Some", live |-> 1]]
               /\ manager_sink' = r
  /\ UNCHANGED <<streamVars, syncVars, sseVars, lockVars>>

\* HttpStreamReader::seek outside the buffered data, through start_stream:
\* at the end of the resource the fetcher is aborted and none started, a
\* failed request leaves the reader as it was, an accepted one replaces the
\* task
ColdSeek(r, res) ==
  /\ readers[r].state \in {"sink", "stopped"}
  /\ readers' = [readers EXCEPT ![r] =
       CASE res = "at_end" -> abort_fetcher(r)
         [] res = "fail" -> readers[r]
         [] res = "ok" -> respawned(r)]
  /\ UNCHANGED <<manager_sink, playPc>>
  /\ UNCHANGED <<streamVars, syncVars, sseVars, lockVars>>

\* a fetch task returns by itself (end of body, error, receiver gone)
TaskOver(r) ==
  /\ readers[r].live > 0
  /\ readers' = [readers EXCEPT ![r].live = @ - 1]
  /\ UNCHANGED <<manager_sink, playPc>>
  /\ UNCHANGED <<streamVars, syncVars, sseVars, lockVars>>

\* impl Drop for HttpStreamReader, run when the audio thread discards the
\* stopped source
AudioThreadDrops(r) ==
  /\ readers[r].state = "stopped"
  /\ readers' = [readers EXCEPT ![r] =
       [abort_fetcher(r) EXCEPT !.state = "dropped"]]
  /\ UNCHANGED <<manager_sink, playPc>>
  /\ UNCHANGED <<streamVars, syncVars, sseVars, lockVars>>

SourceInit ==
  /\ HttpStreamReaderNew(ResourceLen)
  /\ AppNew
  /\ SseConnected
  /\ LocksFree
  /\ NoSources

SourceNext ==
  \/ ManagerStop
  \/ PlayFromStop
  \/ \E res \in {"request_fails", "decoder_fails", "ok"} : PlayFromOpen(res)
  \/ \E r \in Readers :
        \/ \E res \in {"at_end", "fail", "ok"} : ColdSeek(r, res)
        \/ TaskOver(r)
        \/ AudioThreadDrops(r)

SourceSpec == SourceInit /\ [][SourceNext]_vars

\* One byte source, its decoder thread and its fetch task; the client is at
\* rest.
Init ==
  /\ \E hdr \in {None, ResourceLen} : HttpStreamReaderNew(hdr)
  /\ AppNew
  /\ SseConnected
  /\ LocksFree
  /\ NoSources

Next == FetchTask \/ Reader

Spec == Init /\ [][Next]_vars

\* The client: its event loop, its scheduled starts and restarts, the user's
\* command and the clock; the byte source is left as opened.
SyncInit ==
  /\ HttpStreamReaderNew(None)
  /\ AppNew
  /\ SseConnected
  /\ LocksFree
  /\ NoSources

Clock == \E d \in TickSteps : Tick(d)

SyncNext == EventLoop \/ Restart \/ Command \/ Clock

SyncSpec == SyncInit /\ [][SyncNext]_vars

\* The client some time after construction: the server has announced track
\* "abc" in a state event and cleared it in a later one (no position in
\* either), and nothing is scheduled or in progress.
AppStateCleared ==
  clear_sync(update_current_track(
    update_current_track(AppStateNew, Track("abc", 20000)), NoTrack))

ClearedInit ==
  /\ HttpStreamReaderNew(None)
  /\ app_state = AppStateCleared
  /\ now = StartTime
  /\ loopPc = "idle"
  /\ loopEv = NoEvent
  /\ timers = <<>>
  /\ restarts = <<>>
  /\ sink = "none"
  /\ uiPc = "idle"
  /\ events = 0
  /\ commands = 0
  /\ lastDelay = NoDelay
  /\ lastRestart = NoRestart
  /\ SseConnected
  /\ LocksFree
  /\ NoSources

ClearedSpec == ClearedInit /\ [][SyncNext]_vars

\* The supervisor of the event stream from its start, with the handlers of
\* the events it receives, the restarts they start and the clock.
Supervisor ==
  \/ \E url \in Urls : set_server_url(url)
  \/ CheckUrl
  \/ PollWake
  \/ SendFails
  \/ \E success \in BOOLEAN, text \in Streams : Response(success, text)
  \/ \E n \in 1..MaxChunkTokens : StreamChunk(n)
  \/ ChunkError
  \/ StreamEnd
  \/ BlocksDone
  \/ NextBlock
  \/ Wake

Handlers ==
  \/ SyncPlayUpdate
  \/ SyncPlayCheckPaused
  \/ SyncPlayDecide
  \/ StateChanged

SseInit ==
  /\ HttpStreamReaderNew(None)
  /\ app_state = AppStateNew
  /\ now = SseStartTime
  /\ loopPc = "idle"
  /\ loopEv = NoEvent
  /\ timers = <<>>
  /\ restarts = <<>>
  /\ sink = "none"
  /\ uiPc = "idle"
  /\ events = 0
  /\ commands = 0
  /\ lastDelay = NoDelay
  /\ lastRestart = NoRestart
  /\ SseNew
  /\ LocksFree
  /\ NoSources

SseNext == Supervisor \/ Handlers \/ Restart \/ Clock

SseSpec == SseInit /\ [][SseNext]_vars


\* =================================================================== claims
\* What the formulas below read off a step: a step that ends a reader call
\* leaves last'.op = "read" or "seek"; the unprimed variables are the state
\* before the call.
IsRead == last'.op = "read"
SeekTo(t) == last'.op = "seek" /\ last'.target = <<t>>
InWindow(t) ==
  /\ buffer # <<>>
  /\ position - buffer_pos <= t
  /\ t < position - buffer_pos + Len(buffer)
ReaderKept ==
  UNCHANGED <<buffer, buffer_pos, position, eof, chunk_buffer, chunk_rx,
              fetch_task, channel, taskPc, current_offset, pendingMsg,
              respPos>>
ErrorsIn(ch) == {i \in 1..Len(ch) : ch[i].type = "Error"}
ChunksIn(ch) == {i \in 1..Len(ch) : ch[i].type = "Chunk"}

\* C1: every read that returns n > 0 bytes returns the resource's bytes at
\* offsets [p, p+n), p the logical position before the read, and leaves the
\* logical position at p+n.
C1_ReadReturnsResourceBytes ==
  [][(IsRead /\ last'.res = "ok" /\ last'.n > 0) =>
       /\ last'.data = Slice(position, last'.n)
       /\ position' = position + last'.n]_vars

\* C1 witness: after a cold seek reopened the stream at a later offset, a
\* read has returned a full destination buffer.
C1_Witness ==
  /\ last.op = "read" /\ last.res = "ok" /\ last.n = MaxReadLen
  /\ openOffset > 0

\* C2 (as stated): a seek to a target inside the held buffer's window issues
\* no network request at all, leaves the fetch task, the channel and the
\* prefetched chunks alone, and leaves position = target.
C2_SeekLocality_AsStated ==
  [][\A t \in 0..ResourceLen : (SeekTo(t) /\ InWindow(t)) =>
       /\ last'.res = "ok"
       /\ last'.reqs = <<>>
       /\ last'.probes = 0
       /\ position' = t
       /\ UNCHANGED <<buffer, chunk_buffer, chunk_rx, fetch_task, channel,
                      taskPc, current_offset, pendingMsg, respPos>>]_vars

\* C2 (amended): a seek to a target inside the held buffer's window issues no
\* range request, leaves the fetch task, the channel and the prefetched
\* chunks alone, and leaves position = target; the only requests it can make
\* are those of the length probe, made when the total length was unknown.
C2_SeekLocality ==
  [][\A t \in 0..ResourceLen : (SeekTo(t) /\ InWindow(t)) =>
       /\ last'.res = "ok"
       /\ last'.reqs = <<>>
       /\ last'.probes > 0 => total_length = None
       /\ position' = t
       /\ buffer_pos' = t - (position - buffer_pos)
       /\ UNCHANGED <<buffer, chunk_buffer, chunk_rx, fetch_task, channel,
                      taskPc, current_offset, pendingMsg, respPos>>]_vars

\* C2 witness: a local seek moved the cursor back inside the buffer while a
\* prefetched chunk was queued.
C2_Witness ==
  /\ last.op = "seek" /\ last.res = "ok" /\ last.reqs = <<>>
  /\ buffer # <<>> /\ buffer_pos = 0 /\ Len(buffer) = MaxChunk
  /\ last.target = <<position>>
  /\ chunk_buffer # <<>>

\* C3 (as stated): every seek whose target lies outside the buffer window
\* (and is no invalid target: not negative, not beyond the known total
\* length) issues exactly one range request starting at the target and, when
\* it succeeds, has discarded the buffer and every prefetched chunk.
C3_ColdSeek_AsStated ==
  [][\A t \in 0..ResourceLen :
       (SeekTo(t) /\ ~InWindow(t)
          /\ (total_length' = None \/ t <= total_length')) =>
       /\ last'.reqs = <<t>>
       /\ last'.res = "ok" =>
            /\ buffer' = <<>> /\ chunk_buffer' = <<>> /\ channel' = <<>>
            /\ pendingMsg' = NoMsg]_vars

\* C3 (amended): a seek whose target lies outside the buffer window, is not
\* negative and lies below the total length where that is known, issues
\* exactly one range request, starting at the target; when the request
\* succeeds, the buffer and every chunk fetched before are gone and the new
\* response starts at the target; when it fails, the reader is left as it
\* was.  A seek to the known total length or past it issues no range request.
C3_ColdSeek ==
  [][\A t \in -1..(ResourceLen + 1) : (SeekTo(t) /\ ~InWindow(t)) =>
       IF t >= 0 /\ (total_length' = None \/ t < total_length')
       THEN /\ last'.reqs = <<t>>
            /\ last'.res = "ok" =>
                 /\ position' = t /\ buffer' = <<>> /\ buffer_pos' = 0
                 /\ chunk_buffer' = <<>> /\ channel' = <<>>
                 /\ pendingMsg' = NoMsg /\ sent' = <<>>
                 /\ taskPc' = "chunk" /\ respPos' = t /\ ~eof'
            /\ last'.res = "err" => ReaderKept
       ELSE last'.reqs = <<>>]_vars

\* C3 witness: a cold seek has reopened the stream past the start.
C3_Witness ==
  /\ last.op = "seek" /\ last.res = "ok" /\ last.reqs = <<position>>
  /\ position > 0 /\ openOffset = position /\ channel = <<>>

\* C4: once position = total_length, every read returns 0 bytes and never an
\* error, and a seek to total_length makes no network request.
C4_EofIdempotence ==
  [][/\ (IsRead /\ total_length # None /\ position = total_length) =>
          (last'.res = "ok" /\ last'.n = 0)
     /\ (total_length # None /\ SeekTo(total_length)) =>
          (last'.res = "ok" /\ last'.reqs = <<>> /\ last'.probes = 0)]_vars

\* C5 (as stated): the chunks in the channel together with those in the
\* prefetch queue never exceed the channel capacity.
C5_Backpressure_AsStated ==
  Cardinality(ChunksIn(channel)) + Len(chunk_buffer) <= PREFETCH_CHANNEL_SIZE

\* C5 (amended): the channel never holds more than its capacity, the prefetch
\* queue holds fewer than MIN_BUFFER_CHUNKS chunks whenever the reader is not
\* moving chunks, so together they never exceed capacity + MIN_BUFFER_CHUNKS
\* - 1; and the fetch task holds a fetched message back exactly while it is
\* suspended in send.
C5_Backpressure ==
  /\ Len(channel) <= PREFETCH_CHANNEL_SIZE
  /\ Len(chunk_buffer) <= MIN_BUFFER_CHUNKS - 1
  /\ Cardinality(ChunksIn(channel)) + Len(chunk_buffer)
       <= PREFETCH_CHANNEL_SIZE + MIN_BUFFER_CHUNKS - 1
  /\ (taskPc = "send") <=> (pendingMsg # NoMsg)

\* C5 witness: the channel is full, one more chunk is queued in the reader and
\* the fetch task is suspended holding the next one.
C5_Witness ==
  /\ Cardinality(ChunksIn(channel)) = PREFETCH_CHANNEL_SIZE
  /\ Len(chunk_buffer) = 1
  /\ taskPc = "send" /\ pendingMsg.type = "Chunk"

\* C6: a read returns Ok(0) only when the logical position is the resource
\* length; a fetch error never shows as a 0-byte read, on no call.
C6_ZeroOnlyAtEnd ==
  (last.op = "read" /\ last.res = "ok" /\ last.n = 0) =>
    position = ResourceLen

\* C7: a timeout in the fetch loop never puts an error before the reader:
\* the loop reissues the request at the open offset plus the bytes already
\* sent and goes on, and the bytes sent stay contiguous.
C7_TimeoutResilience ==
  /\ taskErr # "stream_error"
  /\ taskPc = "reissue" => current_offset = openOffset + Len(sent)
  /\ taskPc = "chunk" => respPos = openOffset + Len(sent)
  /\ sent = Slice(openOffset, Len(sent))

\* C8: a non-timeout error in the fetch loop is forwarded as exactly one Error
\* message, nothing follows it and the loop has ended; the read that takes
\* it off the channel returns the error.
C8_ErrorForwarded ==
  LET held == IF pendingMsg.type = "Error" THEN 1 ELSE 0
      taken == IF rdErr THEN 1 ELSE 0
  IN /\ taskErr # "none" =>
          /\ held + Cardinality(ErrorsIn(channel)) + taken = 1
          /\ taskPc = (IF held = 1 THEN "send" ELSE "done")
     /\ taskErr = "none" =>
          held + Cardinality(ErrorsIn(channel)) + taken = 0
     /\ \A i \in ErrorsIn(channel) :
          i = Len(channel) /\ channel[i].err = taskErr
     /\ taskPc = "done" => pendingMsg = NoMsg
     /\ (last.op = "read" /\ last.got = <<"Error">>) =>
          (last.res = "err" /\ last.err = taskErr /\ last.n = 0)

\* C8 witness: the read that took the chunk error off the channel has
\* returned it, after bytes had been read.
C8_Witness ==
  /\ last.op = "read" /\ last.got = <<"Error">> /\ last.err = "chunk_error"
  /\ taskPc = "done" /\ position > 0

\* C9 (as stated): a seek whose target is negative or beyond the known total
\* length fails with InvalidInput, makes no network request and changes
\* nothing of the reader.
C9_InvalidSeek_AsStated ==
  [][\A t \in -1..(ResourceLen + 1) :
       (SeekTo(t) /\ (t < 0 \/ (total_length' # None /\ t > total_length')))
       => /\ last'.res = "err" /\ last'.err = "InvalidInput"
          /\ last'.reqs = <<>>
          /\ last'.probes = 0
          /\ ReaderKept]_vars

\* C9 (amended): such a seek fails with InvalidInput, makes no range request
\* and changes nothing of the reader's position, buffer, prefetched chunks,
\* eof flag and fetch task; the only requests it can make are those of the
\* length probe, made when the total length was unknown.
C9_InvalidSeek ==
  [][\A t \in -1..(ResourceLen + 1) :
       (SeekTo(t) /\ (t < 0 \/ (total_length' # None /\ t > total_length')))
       => /\ last'.res = "err" /\ last'.err = "InvalidInput"
          /\ last'.reqs = <<>>
          /\ last'.probes > 0 => total_length = None
          /\ ReaderKept]_vars

\* C9 witness: a seek past the end was refused while a buffer was held and a
\* chunk was queued.
C9_Witness ==
  /\ last.op = "seek" /\ last.err = "InvalidInput"
  /\ last.target = <<ResourceLen + 1>>
  /\ buffer # <<>> /\ chunk_buffer # <<>>

\* C10: for a sync_play that needs a restart the start delay is
\* (playAt - serverTime) - (now - receivedAt) - 50 ms, a non-finite delay
\* being replaced by 0; in the scenario the delay is 450 ms, and the restart
\* that fires after it starts playback at position 10.0 and anchors the clock
\* to position 10.0.
C10_SyncDelay ==
  /\ lastDelay.set =>
       LET ev == lastDelay.ev
           d == Sub(Sub(Sub(ev.play_at, ev.server_time),
                        F(lastDelay.current_time - ev.received)), F(50))
       IN /\ lastDelay.delay = IF d.fin THEN d.v ELSE 0
          /\ lastDelay.inline <=> (lastDelay.delay <= 0)
          /\ (IsScenario(ev) /\ lastDelay.current_time = ev.received) =>
               (lastDelay.delay = 450 /\ timers # <<>>
                  /\ timers[Len(timers)].deadline = ev.received + 450)
  /\ (lastRestart.res = "ok" /\ lastRestart.origin = "timer"
        /\ lastRestart.scen) =>
       /\ lastRestart.start = 10000
       /\ lastRestart.anchor = 10000
       /\ app_state.synced_position = 10000
       /\ app_state.last_sync_instant = now
       /\ computed_position(app_state, now) = 10000

\* The delay of C10 taken alone: the formula, the replacement of a non-finite
\* value, and the 450 ms of the scenario.
SyncDelayFormula ==
  lastDelay.set =>
    LET ev == lastDelay.ev
        d == Sub(Sub(Sub(ev.play_at, ev.server_time),
                     F(lastDelay.current_time - ev.received)), F(50))
    IN /\ lastDelay.delay = IF d.fin THEN d.v ELSE 0
       /\ (IsScenario(ev) /\ lastDelay.current_time = ev.received) =>
            lastDelay.delay = 450

\* ---------------------------------------------------------------- C11
\* The playAt values the delay of an event is compared with: the computation
\* is repeated with the same serverTime, receivedAt and handling time.
PlayAts == {F(0), F(1000), F(1499), F(1500), F(1501), F(F64_MAX)}
DelayWith(play_at) ==
  TimeUntilPlayFinite([lastDelay.ev EXCEPT !.play_at = play_at],
                      lastDelay.current_time)
DelayIsExact(play_at) ==
  is_finite(TimeUntilPlay([lastDelay.ev EXCEPT !.play_at = play_at],
                          lastDelay.current_time))
\* the instant a start is due when its delay is computed at instant t:
\* at once for a delay that is not positive, after the sleep otherwise
StartDue(delay, t) == IF delay <= 0 THEN t ELSE t + delay
\* the start is made, or scheduled, as the delay says
StartsAsComputed ==
  IF lastDelay.inline
  THEN /\ restarts # <<>>
       /\ restarts[Len(restarts)].origin = "loop"
       /\ restarts[Len(restarts)].pc = "stop"
  ELSE /\ timers # <<>>
       /\ timers[Len(timers)].deadline =
            StartDue(lastDelay.delay, lastDelay.current_time)
LaterDelayLaterStart ==
  \A p1, p2 \in PlayAts \cup {lastDelay.ev.play_at} :
    DelayWith(p1) <= DelayWith(p2) =>
      StartDue(DelayWith(p1), lastDelay.current_time)
        <= StartDue(DelayWith(p2), lastDelay.current_time)

\* C11 as stated: whenever the handler computes a start delay, the delay of
\* the same event with a smaller playAt is strictly smaller and with a larger
\* playAt strictly larger, and a larger delay never gives an earlier start.
C11_DelayMonotone_AsStated ==
  lastDelay.set =>
    /\ \A p \in PlayAts :
         /\ p.v < lastDelay.ev.play_at.v => DelayWith(p) < lastDelay.delay
         /\ p.v > lastDelay.ev.play_at.v => DelayWith(p) > lastDelay.delay
    /\ StartsAsComputed
    /\ LaterDelayLaterStart

\* C11 (amended): the delay is strictly increasing in playAt over the playAt
\* values whose computation stays finite; a computation that overflows gives
\* the delay 0; and a larger delay never gives an earlier start, the start
\* being made at once or scheduled at the instant the delay says.
C11_DelayMonotone ==
  lastDelay.set =>
    /\ lastDelay.delay = DelayWith(lastDelay.ev.play_at)
    /\ \A p1, p2 \in PlayAts \cup {lastDelay.ev.play_at} :
         /\ (p1.v < p2.v /\ DelayIsExact(p1) /\ DelayIsExact(p2)) =>
              DelayWith(p1) < DelayWith(p2)
         /\ ~DelayIsExact(p1) => DelayWith(p1) = 0
    /\ StartsAsComputed
    /\ LaterDelayLaterStart

\* a positive delay was computed and scheduled, and a later playAt gives a
\* larger one
C11_Witness ==
  /\ lastDelay.set
  /\ lastDelay.delay > 0
  /\ timers # <<>>
  /\ DelayIsExact(F(1501))
  /\ lastDelay.ev.play_at.v < 1501
  /\ DelayWith(F(1501)) > lastDelay.delay

\* ---------------------------------------------------------------- C12
\* A step of handle_sync_play_event: the event is taken off the stream, or
\* the handler takes its next step; and the track id of the event handled.
HandlerStep ==
  \/ loopPc = "idle" /\ loopPc' = "sync"
  \/ loopPc \in {"sync", "paused", "restart"} /\ loopPc' # loopPc
HandledTrack == IF loopPc = "idle" THEN loopEv'.track_id ELSE loopEv.track_id
PlayingTrack(id) ==
  /\ app_state.current_track.id = id
  /\ app_state.player_status = "Playing"
  /\ ~app_state.user_paused
\* the step starts nothing and stops nothing
NothingStarted ==
  /\ Len(timers') = Len(timers)
  /\ Len(restarts') = Len(restarts)
  /\ \A i \in 1..Len(restarts) : restarts'[i].pc = restarts[i].pc
  /\ sink' = sink

\* C12: every step the handler of a sync_play event for track T takes while
\* the client is Playing track T and not user-paused starts no restart,
\* schedules none, leaves the audio sink alone and leaves the client Playing
\* track T; at its decision the handler returns.
C12_RestartIdempotence ==
  [][(HandlerStep /\ PlayingTrack(HandledTrack)) =>
       /\ NothingStarted
       /\ app_state'.player_status = "Playing"
       /\ ~app_state'.user_paused
       /\ app_state'.current_track = app_state.current_track
       /\ loopPc = "restart" =>
            (loopPc' = "idle" /\ lastDelay'.why = "not_needed")]_vars

\* the handler of an event for the track that is playing has returned with
\* nothing to do
C12_Witness ==
  /\ lastDelay.why = "not_needed"
  /\ lastDelay.ev.loaded = lastDelay.ev.track_id
  /\ PlayingTrack(lastDelay.ev.track_id)
  /\ sink = "playing"
  /\ timers = <<>> /\ restarts = <<>>

\* ---------------------------------------------------------------- C13
\* C13: when the handler of a sync_play event reaches its decision (the user
\* has not paused) and a track other than the event's was loaded when the
\* event arrived, a restart is started at once or scheduled, whatever
\* player_status is.
C13_OtherTrackRestarts ==
  (/\ lastDelay.why \in {"not_needed", "restart"}
   /\ lastDelay.ev.loaded # "none"
   /\ lastDelay.ev.loaded # lastDelay.ev.track_id)
    => (lastDelay.set /\ StartsAsComputed)

\* ---------------------------------------------------------------- C14
\* C14: every step the handler of a sync_play event takes, up to and
\* including its check of user_paused, while user_paused is true starts no
\* restart, schedules none, leaves the audio sink alone and leaves
\* player_status and user_paused as they were; at the check the handler
\* returns.
C14_PausedNoRestart ==
  [][(HandlerStep /\ loopPc # "restart" /\ app_state.user_paused) =>
       /\ NothingStarted
       /\ app_state'.player_status = app_state.player_status
       /\ app_state'.user_paused
       /\ loopPc = "paused" =>
            (loopPc' = "idle" /\ lastDelay'.why = "paused")]_vars

\* the handler has returned at its check because the user had paused
C14_Witness ==
  /\ lastDelay.why = "paused"
  /\ app_state.user_paused
  /\ app_state.player_status = "Paused"
  /\ app_state.current_track.id = lastDelay.ev.track_id
  /\ timers = <<>> /\ restarts = <<>>

\* ---------------------------------------------------------------- C15
\* C15: the call of sync_play_now made by a scheduled start that fires while
\* a pause the user made after it was scheduled is in force goes no further
\* than its entry: it does not set player_status or user_paused and starts
\* no audio.
C15_PauseCancelsScheduledStart ==
  \A i \in 1..Len(restarts) :
    restarts[i].paused => restarts[i].pc \in {"stop", "read"}

\* ---------------------------------------------------------------- C16
\* C16: the call of sync_play_now made by a scheduled start that fires after
\* another restart was started since it was scheduled takes no step: it does
\* not stop the audio and starts none.
C16_SupersededStartCancelled ==
  \A i \in 1..Len(restarts) :
    restarts[i].superseded => restarts[i].pc = "stop"

\* ---------------------------------------------------------------- C17
\* the calls of sync_play_now that have taken their first step (the audio
\* teardown) and not yet their last
Underway == {i \in 1..Len(restarts) : restarts[i].pc # "stop"}

\* C17: at most one call of sync_play_now is between its first and its last
\* step: no call takes its first step while another is underway.
C17_RestartsExclusive == Cardinality(Underway) <= 1

\* ---------------------------------------------------------------- C18
\* C18: in the state a call of sync_play_now returns an error in (no current
\* track, or play_from failed), player_status is Stopped and the position
\* anchor is cleared: position 0 and no sync instant.
C18_FailedRestartStops ==
  lastRestart.res \in {"err", "no_track"} =>
    /\ app_state.player_status = "Stopped"
    /\ app_state.synced_position = 0
    /\ app_state.last_sync_instant = None

\* ---------------------------------------------------------------- C19
\* C19: player_status becomes Playing only in the step in which a call of
\* sync_play_now returns after the audio was started; and in the state that
\* call returns in, player_status is Playing, user_paused is false, and the
\* clock is anchored, at this instant, to the position the audio was skipped
\* to.
C19_PlayingOnlyOnSuccess ==
  [][/\ (app_state'.player_status = "Playing"
           /\ app_state.player_status # "Playing")
          => lastRestart'.res = "ok"
     /\ lastRestart'.res = "ok" =>
          /\ app_state'.player_status = "Playing"
          /\ ~app_state'.user_paused
          /\ app_state'.last_sync_instant = now'
          /\ app_state'.synced_position = lastRestart'.start
          /\ lastRestart'.anchor = lastRestart'.start]_vars

\* ---------------------------------------------------------------- C20
\* A step of apply_state_event: the event is taken off the stream and applied
\* under the state lock, or the track-change branch is taken.
StateEventStep ==
  \/ loopPc = "idle" /\ events' # events /\ loopPc' # "sync"
  \/ loopPc = "changed" /\ loopPc' = "idle"

\* C20: a step of apply_state_event changes player_status only when, before
\* it, user_paused is false and player_status is Playing; it never moves a
\* Stopped or Paused client to Playing, never changes the player_status of a
\* user-paused client, and leaves user_paused alone.
C20_StatusOnlyWhilePlaying ==
  [][StateEventStep =>
       /\ app_state'.player_status # app_state.player_status =>
            (~app_state.user_paused /\ app_state.player_status = "Playing")
       /\ app_state.player_status \in {"Stopped", "Paused"} =>
            app_state'.player_status # "Playing"
       /\ app_state.user_paused =>
            app_state'.player_status = app_state.player_status
       /\ app_state'.user_paused = app_state.user_paused]_vars

\* a state event has taken a playing client to the server's paused status:
\* without a command of the user, nothing else sets Paused
C20_Witness ==
  /\ commands = 0
  /\ app_state.player_status = "Paused"
  /\ ~app_state.user_paused
  /\ events > 1

\* ---------------------------------------------------------------- C21
\* the step in which a state event is applied under the state lock
StateApplied == loopPc = "idle" /\ events' # events /\ loopPc' # "sync"

\* C21: applying a state event flags a track change (the track-change branch
\* is entered) exactly when the identity of the current track after the
\* event differs from the one before it, "no track" being an identity.
C21_TrackChangeDetected ==
  [][StateApplied =>
       ((loopPc' = "changed")
          <=> (app_state'.current_track.id # app_state.current_track.id))
    ]_vars

\* ---------------------------------------------------------------- C22
\* C22: when the track-change branch of a state event is taken, a call of
\* sync_play_now is started if the event brought a track and the client was
\* Playing and not user-paused when the event arrived, whatever status the
\* event carried; otherwise none is started.
C22_TrackChangeRestarts ==
  [][(loopPc = "changed" /\ loopPc' = "idle") =>
       IF loopEv.playing /\ loopEv.track_id # "none"
       THEN /\ Len(restarts') = Len(restarts) + 1
            /\ restarts'[Len(restarts')].origin = "state"
            /\ app_state.current_track.id = loopEv.track_id
       ELSE Len(restarts') = Len(restarts)]_vars

\* ---------------------------------------------------------------- C28
\* the anchor: the position last synced and the instant it was synced at
\* (None after a preview or a clear: nothing to extrapolate from)
Extrapolated ==
  IF /\ app_state.player_status = "Playing"
     /\ ~app_state.user_paused
     /\ app_state.last_sync_instant # None
  THEN app_state.synced_position + (now - app_state.last_sync_instant)
  ELSE app_state.synced_position
Clamp(x, lo, hi) == IF x < lo THEN lo ELSE IF x > hi THEN hi ELSE x

\* C28: in every reachable state computed_position is the anchor position,
\* plus the time since the anchor instant when player_status is Playing and
\* user_paused is false, clamped to [0, duration]; so it lies between 0 and
\* the duration.
C28_ClockClamped ==
  /\ computed_position(app_state, now)
       = Clamp(Extrapolated, 0, app_state.track_duration)
  /\ 0 <= computed_position(app_state, now)
  /\ computed_position(app_state, now) <= app_state.track_duration

\* the clock runs: playing a track of known duration, some time after the
\* anchor was set, and short of the end
C28_Witness ==
  /\ app_state.player_status = "Playing"
  /\ ~app_state.user_paused
  /\ app_state.last_sync_instant # None
  /\ now > app_state.last_sync_instant
  /\ app_state.synced_position > 0
  /\ computed_position(app_state, now)
       = app_state.synced_position + (now - app_state.last_sync_instant)
  /\ computed_position(app_state, now) < app_state.track_duration

\* ---------------------------------------------------------------- C29
\* C29: when the track duration is 0 (unknown), computed_position is the
\* anchor position, plus the elapsed time while playing, bounded below by 0
\* and not bounded above.
C29_UnknownDuration ==
  app_state.track_duration = 0 =>
    computed_position(app_state, now) = Max(Extrapolated, 0)

\* ---------------------------------------------------------------- C30
\* C30: the step in which the user pauses leaves the computed position what
\* it was at that moment, and so does every later step taken while
\* user_paused stays true, the arrival of server events included: the
\* position read does not move until the user resumes.
C30_FrozenOnPause ==
  [][app_state'.user_paused =>
       computed_position(app_state', now')
         = computed_position(app_state, now)]_vars

\* ---------------------------------------------------------------- C23
\* A step in which establish_sse returns, and one in which it returns
\* because the connection could not be made.
Disconnects == ssePc \in {"send", "open"} /\ ssePc' = "sleep"
ConnectFails == ssePc = "send" /\ ssePc' = "sleep"
\* the delay (s) stated for the k-th consecutive failure
StatedDelay(k) == IF k <= 5 THEN Pow2(k - 1) ELSE 30

\* C23: starting from a fresh supervisor, the k-th of consecutive connection
\* failures is followed by a delay of 1, 2, 4, 8, 16 s for k = 1..5 and of
\* 30 s for every k >= 6; and every delay is
\* min(1 s * 2^min(attempts, 5), 30 s).
C23_BackoffSequence ==
  [][(ConnectFails /\ failures = reconnect_attempts) =>
       /\ sleep_secs' = StatedDelay(failures')
       /\ sleep_secs' = Min(Pow2(Min(reconnect_attempts', 5)), 30)]_vars

\* ---------------------------------------------------------------- C24
\* C24: a connection that succeeded (success status, the stream being read)
\* resets the attempts counter to 0: when it ends, by an error or by the end
\* of the stream, the delay before the next attempt is 1 s, however many
\* failures came before it.
C24_SuccessResets ==
  [][(ssePc = "open" /\ ssePc' = "sleep") =>
       /\ reconnect_attempts' = 0
       /\ sleep_secs' = 1]_vars

\* ---------------------------------------------------------------- C25
\* The supervisor with its timers and its task scheduled: a sleep comes to
\* an end, and the task then reads the URL and sends the request.
SseFairSpec ==
  /\ SseSpec
  /\ WF_vars(Wake)
  /\ WF_vars(PollWake)
  /\ WF_vars(CheckUrl)

\* C25: with a backend URL configured, every disconnect (no response, a
\* non-success status, a chunk error, the end of the stream) puts the
\* supervisor to sleep for at most 30 s, after which a new connection
\* attempt is made; and at most one event-stream connection is ever open.
C25_NeverGivesUp ==
  /\ [](conns <= 1)
  /\ [][Disconnects => (sleep_secs' >= 1 /\ sleep_secs' <= 30)]_vars
  /\ (backend_url # NoUrl /\ ssePc \in {"sleep", "poll", "check"})
        ~> (ssePc = "send")

\* a stream is open again after two disconnects
C25_Witness ==
  /\ ssePc = "open"
  /\ conns = 1
  /\ reconnect_attempts >= 2
  /\ failures = 0

\* ---------------------------------------------------------------- C26
\* The step in which the next block is cut off the buffer and processed,
\* and that block.
BlockStep == ssePc = "blocks" /\ sse_buffer' # sse_buffer
CurrentBlock == SubSeq(sse_buffer, 1, find_delimiter(sse_buffer) - 1)
\* the lines of a block that do not begin with ':' and begin with the field
NamedLines(block, field) ==
  SelectSeq(lines(block), LAMBDA l : l # <<>> /\ l[1] = field)
\* the payload: the values of the data lines, in their order, one per line
RECURSIVE OnePerLine(_, _)
OnePerLine(ls, i) ==
  IF i > Len(ls) THEN <<>>
  ELSE (IF i > 1 THEN <<"\n">> ELSE <<>>) \o ls[i] \o OnePerLine(ls, i + 1)
PayloadOf(block) ==
  LET dl == NamedLines(block, "data:")
  IN OnePerLine([i \in 1..Len(dl) |-> trim_start(Tail(dl[i]))], 1)
TypesOf(block) ==
  LET el == NamedLines(block, "event:")
  IN {trim(Tail(el[i])) : i \in 1..Len(el)}

\* C26: of every block processed, the lines beginning with ':' are ignored,
\* the event type is that of an "event:" line (none when there is no such
\* line), the payload is the "data:" lines joined with newlines in their
\* order; a block with no "event:" line is discarded: SharedState is
\* unchanged, nothing is handled, and the stream is read on.
C26_BlockParsing ==
  [][BlockStep =>
       LET b == parse_block(CurrentBlock)
       IN /\ b.payload = PayloadOf(CurrentBlock)
          /\ b.event_type.some <=> TypesOf(CurrentBlock) # {}
          /\ b.event_type.some => b.event_type.name \in TypesOf(CurrentBlock)
          /\ TypesOf(CurrentBlock) = {} =>
                /\ app_state' = app_state
                /\ UNCHANGED <<loopPc, events, timers, restarts, sink, ssePc,
                               conns, reconnect_attempts>>]_vars

\* the block with a comment, a padded event line and two data lines has
\* been processed as the state event it carries
C26_Witness ==
  /\ stream.text = StateBlock \o SyncPlayBlock
  /\ events = 1
  /\ sse_buffer = <<>>
  /\ app_state.current_track = Track("abc", 20000)
  /\ app_state.synced_position = 3000

\* ---------------------------------------------------------------- C27
\* the blocks the server sends, as they are cut off the buffer
AsCut(text) == RemoveCr(SubSeq(text, 1, Len(text) - 2))
MalformedBlocks == {AsCut(TruncatedStateBlock), AsCut(BadSyncPlayBlock)}
IgnoredBlocks == {AsCut(HeartbeatBlock), AsCut(UnknownBlock)}
\* the restart an event's handler awaits has failed
InlineRestartFails ==
  /\ loopPc = "await"
  /\ lastRestart'.res = "err"
  /\ lastRestart'.origin = "loop"
\* the connection is as it was and the loop is ready for the next block
ConnectionGoesOn ==
  /\ ssePc' = "blocks"
  /\ loopPc' = "idle"
  /\ UNCHANGED <<conns, reconnect_attempts, sleep_secs, stream, failures>>

\* C27: a state or sync_play block with a malformed payload, a heartbeat and
\* a block of unknown type leave SharedState unchanged and start nothing;
\* after any of them, and after the failure of a restart an event's handler
\* awaited, the connection is still open, the attempts counter is what it
\* was, and the rest of the buffer is still there to be processed.
C27_ErrorsKeepConnection ==
  [][/\ (BlockStep /\ CurrentBlock \in MalformedBlocks \cup IgnoredBlocks) =>
          /\ app_state' = app_state
          /\ UNCHANGED <<events, timers, restarts, sink>>
          /\ ConnectionGoesOn
          /\ sse_buffer' = SubSeq(sse_buffer, Len(CurrentBlock) + 3,
                                  Len(sse_buffer))
     /\ InlineRestartFails =>
          /\ ssePc = "blocks"
          /\ ConnectionGoesOn
          /\ sse_buffer' = sse_buffer]_vars

\* after two malformed blocks, the sync_play block that follows them on the
\* same connection has been handled
C27_Witness ==
  /\ stream.text = TruncatedStateBlock \o BadSyncPlayBlock \o SyncPlayBlock
  /\ reconnect_attempts = 0
  /\ conns = 1
  /\ sse_buffer = <<>>
  /\ app_state.current_track = Track("abc", 0)
  /\ app_state.synced_position = 10000

\* the restart awaited by the handler of the first block failed, and the
\* block that follows it on the same connection has been applied
C27_RestartFailedThenNext ==
  /\ stream.text = SyncPlayNowBlock \o TwoTypesBlock
  /\ reconnect_attempts = 0
  /\ conns = 1
  /\ events = 2
  /\ sse_buffer = <<>>
  /\ app_state.last_track_id = "xyz"
  /\ app_state.player_status = "Stopped"

\* ---------------------------------------------------------------- C33
\* C33 (as stated): whenever the held buffer is non-empty,
\* buffer_start <= position < buffer_start + Len(buffer), with
\* buffer_start = position - buffer_pos.
C33_BufferWindow_AsStated ==
  buffer # <<>> =>
    /\ position - buffer_pos <= position
    /\ position < position - buffer_pos + Len(buffer)

\* C33 (amended): whenever the held buffer is non-empty,
\* buffer_start <= position <= buffer_start + Len(buffer), the upper bound
\* reached when the buffer has been read to its end; the cursor is the
\* distance of the position from buffer_start, and the buffer holds the
\* resource's bytes from buffer_start on.
C33_BufferWindow ==
  buffer # <<>> =>
    /\ buffer_start <= position
    /\ position <= buffer_start + Len(buffer)
    /\ buffer_pos = position - buffer_start
    /\ buffer = Slice(buffer_start, Len(buffer))

\* a buffer of a reopened stream read to its end and not yet replaced
C33_Witness ==
  /\ rdPc = "idle"
  /\ openOffset > 0
  /\ Len(buffer) = MaxChunk
  /\ buffer_pos = Len(buffer)
  /\ position = buffer_start + Len(buffer)

\* ---------------------------------------------------------------- C35
\* C35: a cold seek sends one range request from its target.  It succeeds
\* only when the server answers with a success status, which it never does
\* for a range at or past the end of the resource; when it fails the seek
\* returns an error and position, buffer, prefetched chunks, eof flag,
\* channel and fetch task are what they were: no task is spawned, the
\* running one is not cancelled.
C35_OpenFailureKeepsState ==
  [][\A t \in 0..(ResourceLen + 1) :
       (SeekTo(t) /\ last'.kind = "cold") =>
         /\ last'.reqs = <<t>>
         /\ t >= ResourceLen => last'.res = "err"
         /\ last'.res = "err" =>
              /\ last'.err = "Other"
              /\ ReaderKept
              /\ UNCHANGED <<openOffset, sent, taskErr>>
         /\ last'.res = "ok" =>
              /\ position' = t /\ openOffset' = t
              /\ buffer' = <<>> /\ chunk_buffer' = <<>>
              /\ channel' = <<>> /\ taskPc' = "chunk"]_vars

\* a cold seek has failed while a buffer was held, a chunk was queued and
\* the fetch task was running
C35_Witness ==
  /\ last.op = "seek" /\ last.kind = "cold" /\ last.res = "err"
  /\ buffer # <<>> /\ chunk_buffer # <<>>
  /\ SenderAlive

\* ---------------------------------------------------------------- C36
\* C36: the step in which the handler of a sync_play event for position P
\* sets the anchor leaves the anchor at (P, now), whatever user_paused, the
\* delay and the need of a restart are, and the position then reported is P
\* when P is within the track duration or the duration is unknown (0).
C36_AnchorFollowsSyncPlay ==
  [][(loopPc = "sync" /\ loopPc' = "paused") =>
       /\ app_state'.synced_position = loopEv.position
       /\ app_state'.last_sync_instant = now
       /\ (\/ app_state'.track_duration = 0
           \/ loopEv.position <= app_state'.track_duration) =>
            computed_position(app_state', now') = loopEv.position]_vars

\* ---------------------------------------------------------------- C37
\* C37: in every reachable state user_paused implies that player_status is
\* Paused.
C37_PausedImpliesStatus ==
  app_state.user_paused => app_state.player_status = "Paused"

\* ---------------------------------------------------------------- C38
\* nothing in progress: no sync_play_now call, no play_pause command
Quiescent == restarts = <<>> /\ uiPc = "idle"

\* C38: when the pause command completes and every sync_play_now that ran
\* beside it has completed too, the state is user_paused with player_status
\* Paused and no sink playing; and with nothing in progress the state is
\* never Playing and not user-paused with no sink playing.
C38_PauseNotLost ==
  /\ [][(uiPc = "stop" /\ uiPc' = "idle" /\ restarts = <<>>) =>
          /\ app_state'.user_paused
          /\ app_state'.player_status = "Paused"
          /\ sink' = "none"]_vars
  /\ []((/\ Quiescent
         /\ app_state.player_status = "Playing"
         /\ ~app_state.user_paused) => sink = "playing")

\* ---------------------------------------------------------------- C39
\* C39: in every state with no restart and no play_pause command in
\* progress, a sink is playing only if player_status is Playing.
C39_SinkOnlyWhilePlaying ==
  (Quiescent /\ sink = "playing") => app_state.player_status = "Playing"

\* ---------------------------------------------------------------- C34
\* The text of the first n bytes of the stream, decoded as one piece.
Canon(n) == RemoveCr(from_utf8_lossy(SubSeq(stream.text, 1, n)))
\* The ends of the blank-line delimiters of text d found from index k on,
\* each searched for after the one before.
RECURSIVE CutsFrom(_, _)
CutsFrom(d, k) ==
  LET idx == find_delimiter(SubSeq(d, k + 1, Len(d)))
  IN IF idx = 0 THEN {} ELSE {k + idx + 1} \cup CutsFrom(d, k + idx + 1)

\* C34: however the stream is cut into chunks, the text not yet processed
\* is what follows a delimiter of the text received so far (decoded as one
\* piece), or all of it; no complete block is left in the buffer when the
\* next chunk is awaited; a block is cut off only when the handler of the
\* block before has returned, and it is the text up to the next delimiter.
C34_ChunkingIndependent ==
  /\ [](ssePc \in {"open", "blocks"} =>
          LET d == Canon(stream.pos)
              k == Len(d) - Len(sse_buffer)
          IN /\ k >= 0
             /\ sse_buffer = SubSeq(d, k + 1, Len(d))
             /\ k \in {0} \cup CutsFrom(d, 0)
             /\ ssePc = "open" => find_delimiter(sse_buffer) = 0)
  /\ [][BlockStep =>
          /\ loopPc = "idle"
          /\ find_delimiter(CurrentBlock) = 0
          /\ sse_buffer' = SubSeq(sse_buffer, Len(CurrentBlock) + 3,
                                  Len(sse_buffer))]_vars

\* ---------------------------------------------------------------- C32
\* C32: a task that asks for a lock holds no lock, and a task awaiting a
\* request, an audio open or a sleep does not hold the SharedState lock.
C32_LockDiscipline ==
  \A t \in Tasks :
    /\ At(t, "lock") => Held(t) = {}
    /\ At(t, "io") => owner["state"] # t

\* ---------------------------------------------------------------- C40
\* task t asks for lock l
Requests(t, l) == At(t, "lock") /\ Op(t).arg = l
\* some tasks each ask for a lock that one of them holds
Deadlocked ==
  \E T \in SUBSET Tasks :
    /\ T # {}
    /\ \A t \in T : \E l \in Locks : Requests(t, l) /\ owner[l] \in T

\* a step of some task
TaskStep ==
  \E t \in Tasks :
    Run(t) \/ Acquire(t) \/ Release(t) \/ BlockingIo(t) \/ SpawnTask(t)
    \/ Branch(t)

\* The runtime runs a task that can take a step, and requests, audio opens
\* and sleeps complete: while some task can take a step, one is taken.
LockFairSpec == LockSpec /\ WF_vars(TaskStep)

\* C40: no set of tasks ever waits in a circle for locks its members hold,
\* and no task asks for a lock for ever: again and again every lock asked
\* for has been handed over.
C40_DeadlockFree ==
  /\ [](~Deadlocked)
  /\ []<>(\A t \in Tasks : ~At(t, "lock"))

\* the update task waits for the AudioManager lock held by a start that
\* waits, inside stop or play_from, for the sink lock held by the volume task
C40_Witness ==
  /\ Requests("update", "audio")
  /\ \E t \in {"sse", "command", "timer", "start"} :
        /\ owner["audio"] = t
        /\ Requests(t, "sink")
  /\ owner["sink"] = "volume"

\* ---------------------------------------------------------------- C31
\* C31: at most one byte source has a fetch task that is neither aborted
\* nor over, no source has two, and a source that was dropped or never
\* created has none.
C31_OneLiveFetchTask ==
  /\ Cardinality({r \in Readers : readers[r].live > 0}) <= 1
  /\ \A r \in Readers :
        /\ readers[r].live <= 1
        /\ readers[r].state \in {"unborn", "dropped"} => readers[r].live = 0

====
